---------------------------- MODULE Spec2Model ----------------------------
(***************************************************************************)
(* Model of the data reconciliation and aggregation core of the weather    *)
(* chatbot: src/core/wrangle.py as driven by src/core/pipeline.py.         *)
(*                                                                         *)
(* A pandas DataFrame is a record [exc, columns, rows]: exc is "none" for  *)
(* a table and the exception name when the call that should have built it  *)
(* raised; columns is the sequence of column labels; rows is the sequence  *)
(* of rows in index order, each a function from column label to cell.      *)
(* A cell is a record [kind, val]: kind "num" is a number, "na" is a       *)
(* null (None / NaN / pd.NA), "str" is a text that does not parse as a     *)
(* number, "missing" is a key that is not in a dict at all.                *)
(***************************************************************************)
EXTENDS Integers, Sequences, FiniteSets, TLC

VARIABLES
    pc,                 \* position of generate_weather_report
    weatherbit_data,    \* pipeline.py:50
    open_meteo_data,    \* pipeline.py:53
    df_openmeteo,       \* wrangle.py:57 (local of merge_forecasts)
    df_weatherbit,      \* wrangle.py:58 (local of merge_forecasts)
    forecast_df_merged, \* pipeline.py:71
    noaa_data,          \* pipeline.py:56
    historical_df,      \* pipeline.py:74
    summary_historical_df,  \* pipeline.py:77
    daily_historical_df,    \* pipeline.py:80
    today,              \* weather_sources.py:125 (date.today())
    days_back,          \* weather_sources.py:229 (parameter)
    date_ranges,        \* weather_sources.py:246
    ranges_done,        \* weather_sources.py:254 (iterations of the loop so far)
    archive,            \* the days the historical source has records of
    station_response,   \* weather_sources.py:160
    station_id,         \* weather_sources.py:248
    server_count,       \* the records the historical source has for the range
    reports_count,      \* whether its responses carry metadata.resultset.count
    offset,             \* weather_sources.py:198
    all_results,        \* weather_sources.py:196
    requested,          \* the offsets of the page requests made so far
    attempt,            \* weather_sources.py:101 (attempts made)
    backoff,            \* weather_sources.py:88, 108
    slept,              \* the waits of time.sleep, weather_sources.py:107
    statuses,           \* the status codes of the attempts of the request
    response,           \* weather_sources.py:213
    location,           \* pipeline.py:47 (lat, lon)
    provider_status,    \* the status codes the forecast providers answered with
    overloaded,         \* the requests to the historical source that got 503 only
    news_data,          \* pipeline.py:59
    reddit_data,        \* pipeline.py:62
    prompt,             \* pipeline.py:94
    llm_response,       \* pipeline.py:99
    exception,          \* the exception that left generate_weather_report
    reversed_df,        \* a second table object, summarized in the other order
    reversed_summary,   \* summarize_noaa_data of it
    reversed_daily,     \* summarize_noaa_daily_climatology of it
    openai_key,         \* llm_prompting.py:139 (parameter)
    backends,           \* the LLM backends queried, in order
    completion,         \* how the completion request of query_openai ended
    model_path,         \* llm_prompting.py:186
    report,             \* pipeline.py:101 (the value generate_weather_report returns)
    chat_backend,       \* what run_location_chat finds: key, SDK, local model file
    max_turns,          \* interactive_location_chat.py:127 (parameter)
    turn,               \* interactive_location_chat.py:56
    messages,           \* interactive_location_chat.py:55
    chat_location,      \* main-enhanced.py:21 (location)
    forecast_requests   \* the POSTs of get_forecast, main-enhanced.py:10

forecast_vars == <<weatherbit_data, open_meteo_data, df_openmeteo, df_weatherbit,
                   forecast_df_merged>>

historical_vars == <<noaa_data, historical_df, summary_historical_df,
                     daily_historical_df>>

ranges_vars == <<today, days_back, date_ranges, ranges_done, archive>>

station_vars == <<station_response, station_id>>

fetch_vars == <<server_count, reports_count, offset, all_results, requested,
                attempt, backoff, slept, statuses, response>>

order_vars == <<reversed_df, reversed_summary, reversed_daily>>

llm_vars == <<openai_key, backends, completion, model_path, report>>

chat_vars == <<chat_backend, max_turns, turn, messages, chat_location, forecast_requests>>

side_vars == <<order_vars, llm_vars, chat_vars>>

report_vars == <<location, provider_status, overloaded, news_data, reddit_data,
                 prompt, llm_response, exception, side_vars>>

other_vars == <<ranges_vars, station_vars, fetch_vars, report_vars>>

vars == <<pc, forecast_vars, historical_vars, other_vars>>

\* the state of the parts that a branch does not run
RangesIdle ==
    /\ today = 0
    /\ days_back = 0
    /\ date_ranges = <<>>
    /\ ranges_done = 0
    /\ archive = "none"

\* Python's None
None == [kind |-> "none"]

StationIdle == station_response = None /\ station_id = None

FetchIdle ==
    /\ server_count = 0
    /\ reports_count = FALSE
    /\ offset = 0
    /\ all_results = <<>>
    /\ requested = <<>>
    /\ attempt = 0
    /\ backoff = 0
    /\ slept = <<>>
    /\ statuses = <<>>
    /\ response = None

OrderIdle ==
    /\ reversed_df = None
    /\ reversed_summary = None
    /\ reversed_daily = None

LlmIdle ==
    /\ openai_key = None
    /\ backends = <<>>
    /\ completion = "none"
    /\ model_path = "none"
    /\ report = None

ChatIdle ==
    /\ chat_backend = "none"
    /\ max_turns = 0
    /\ turn = 0
    /\ messages = <<>>
    /\ chat_location = None
    /\ forecast_requests = 0

SideIdle == OrderIdle /\ LlmIdle /\ ChatIdle

ReportIdle ==
    /\ SideIdle
    /\ location = None
    /\ provider_status = [weatherbit |-> 0, open_meteo |-> 0]
    /\ overloaded = {}
    /\ news_data = <<>>
    /\ reddit_data = <<>>
    /\ prompt = None
    /\ llm_response = None
    /\ exception = None

OtherIdle == RangesIdle /\ StationIdle /\ FetchIdle /\ ReportIdle

----------------------------------------------------------------------------
(* Cells *)

NA == [kind |-> "na", val |-> 0]
Missing == [kind |-> "missing", val |-> 0]
Num(n) == [kind |-> "num", val |-> n]
Unparseable == [kind |-> "str", val |-> 0]

IsNull(c) == c.kind = "na"

----------------------------------------------------------------------------
(* Bounds of the forecast inputs *)

\* longest "time" array / "data" list a provider answers with
MaxDays == 2

\* the forecast dates, as day ordinals: both providers send ISO "YYYY-MM-DD"
\* strings, whose string order is the order of the ordinals
ForecastDates == {1, 2, 3}

----------------------------------------------------------------------------
(* Column vocabulary of normalize_forecast *)

OpenMeteoKeys ==
    <<"temperature_2m_max", "temperature_2m_min", "precipitation_sum",
      "windspeed_10m_max">>

OpenMeteoCols ==
    <<"temp_max-degC-open_meteo", "temp_min-degC-open_meteo",
      "precip-mm-open_meteo", "wind_max-mpersec-open_meteo">>

WeatherbitKeys == <<"max_temp", "min_temp", "precip", "wind_spd">>

WeatherbitCols ==
    <<"temp_max-degC-weatherbit", "temp_min-degC-weatherbit",
      "precip-mm-weatherbit", "wind_max-mpersec-weatherbit">>

Range(s) == {s[i] : i \in 1..Len(s)}

----------------------------------------------------------------------------
(* DataFrames *)

\* pd.DataFrame([]): no rows and no columns
EmptyFrame == [exc |-> "none", columns |-> <<>>, rows |-> <<>>]

Raised(e) == [exc |-> e, columns |-> <<>>, rows |-> <<>>]

\* pd.DataFrame(list of dicts that all have the keys `cols`)
DataFrameOf(records, cols) ==
    IF records = <<>> THEN EmptyFrame
    ELSE [exc |-> "none", columns |-> cols, rows |-> records]

HasColumn(df, c) == c \in Range(df.columns)

DatesOf(df) == {df.rows[i]["date"] : i \in 1..Len(df.rows)}

RowsOn(df, d) == {i \in 1..Len(df.rows) : df.rows[i]["date"] = d}

----------------------------------------------------------------------------
(* normalize_forecast *)

\* dict.get(key) of a per-day object: None when the key is not there
DictGet(c) == IF c.kind = "missing" THEN NA ELSE c

\* daily.get(key, [None]*len(dates))[i]: the default list only stands in for a
\* key that is not there; a null array and a short array are indexed as they are
OpenMeteoGet(daily, key, i) ==
    LET a == daily.arrays[key] IN
    IF a.kind = "missing" THEN [exc |-> "none", cell |-> NA]
    ELSE IF a.kind = "null" THEN [exc |-> "TypeError", cell |-> NA]
    ELSE IF i > Len(a.items) THEN [exc |-> "IndexError", cell |-> NA]
    ELSE [exc |-> "none", cell |-> a.items[i]]

\* data.get("daily", {}) of a payload without "daily"
NoDaily ==
    [time |-> <<>>,
     arrays |-> [k \in Range(OpenMeteoKeys) |-> [kind |-> "missing", items |-> <<>>]]]

\* the dict appended for position i of the "time" array
OpenMeteoRow(daily, i) ==
    [c \in {"date"} \cup Range(OpenMeteoCols) |->
        IF c = "date" THEN daily.time[i]
        ELSE LET k == CHOOSE j \in 1..4 : OpenMeteoCols[j] = c
             IN OpenMeteoGet(daily, OpenMeteoKeys[k], i).cell]

\* the dict appended for one per-day object
WeatherbitRow(day) ==
    [c \in {"date"} \cup Range(WeatherbitCols) |->
        IF c = "date" THEN day.datetime
        ELSE LET k == CHOOSE j \in 1..4 : WeatherbitCols[j] = c
             IN DictGet(day.fields[WeatherbitKeys[k]])]

normalize_forecast(data, source_name) ==
    IF source_name = "open_meteo" THEN
        LET daily == IF data.has_daily THEN data.daily ELSE NoDaily
            dates == daily.time
            \* the lookups that raise, and the first of them in evaluation order
            fails == {p \in (1..Len(dates)) \X (1..4) :
                         OpenMeteoGet(daily, OpenMeteoKeys[p[2]], p[1]).exc # "none"}
            first == CHOOSE p \in fails : \A q \in fails :
                         p[1] < q[1] \/ (p[1] = q[1] /\ p[2] <= q[2])
        IN  IF fails # {}
            THEN Raised(OpenMeteoGet(daily, OpenMeteoKeys[first[2]], first[1]).exc)
            ELSE DataFrameOf([i \in 1..Len(dates) |-> OpenMeteoRow(daily, i)],
                             <<"date">> \o OpenMeteoCols)
    ELSE IF source_name = "weatherbit" THEN
        LET days == IF data.has_data THEN data.data ELSE <<>>
        IN  DataFrameOf([i \in 1..Len(days) |-> WeatherbitRow(days[i])],
                        <<"date">> \o WeatherbitCols)
    ELSE EmptyFrame

----------------------------------------------------------------------------
(* merge_forecasts *)

\* one row of the joined table: the cells of l, or nulls when l is no row, and
\* the same for r
JoinedRow(d, l, hasL, r, hasR) ==
    [c \in {"date"} \cup Range(OpenMeteoCols) \cup Range(WeatherbitCols) |->
        IF c = "date" THEN d
        ELSE IF c \in Range(OpenMeteoCols) THEN (IF hasL THEN l[c] ELSE NA)
        ELSE (IF hasR THEN r[c] ELSE NA)]

\* the rows the join makes of left row i: one per right row of the same date,
\* or one with the right columns null
RECURSIVE LeftRows(_, _, _)
LeftRows(left, right, i) ==
    IF i > Len(left.rows) THEN <<>>
    ELSE LET l == left.rows[i]
             m == SelectSeq(right.rows, LAMBDA r : r["date"] = l["date"])
             mine == IF m = <<>>
                     THEN <<JoinedRow(l["date"], l, TRUE, l, FALSE)>>
                     ELSE [j \in 1..Len(m) |-> JoinedRow(l["date"], l, TRUE, m[j], TRUE)]
         IN  mine \o LeftRows(left, right, i + 1)

\* the rows of right whose date no left row has, left columns null
RightOnlyRows(left, right) ==
    LET o == SelectSeq(right.rows, LAMBDA r : r["date"] \notin DatesOf(left))
    IN  [j \in 1..Len(o) |-> JoinedRow(o[j]["date"], o[j], FALSE, o[j], TRUE)]

\* pd.merge(left, right, on="date", how="outer"): KeyError when a frame has no
\* "date" column
pd_merge(left, right) ==
    IF ~HasColumn(left, "date") \/ ~HasColumn(right, "date") THEN Raised("KeyError")
    ELSE [exc |-> "none",
          columns |-> <<"date">> \o OpenMeteoCols \o WeatherbitCols,
          rows |-> LeftRows(left, right, 1) \o RightOnlyRows(left, right)]

\* insert row x into the ascending sequence s after the rows that are not later
RECURSIVE InsertByDate(_, _)
InsertByDate(s, x) ==
    IF s = <<>> THEN <<x>>
    ELSE IF s[Len(s)]["date"] <= x["date"] THEN Append(s, x)
    ELSE Append(InsertByDate(SubSeq(s, 1, Len(s) - 1), x), s[Len(s)])

RECURSIVE SortRows(_, _)
SortRows(rows, n) ==
    IF n = 0 THEN <<>> ELSE InsertByDate(SortRows(rows, n - 1), rows[n])

\* the merged table left in the order of the join
sort_values_skipped(df) == df

\* df.sort_values("date").reset_index(drop=True)
sort_values(df) == [df EXCEPT !.rows = SortRows(df.rows, Len(df.rows))]

merge_forecasts(om, wb) ==
    LET dfo == normalize_forecast(om, "open_meteo")
        dfw == normalize_forecast(wb, "weatherbit")
    IN  IF dfo.exc # "none" THEN dfo
        ELSE IF dfw.exc # "none" THEN dfw
        ELSE LET merged_df == pd_merge(dfo, dfw)
             IN  IF merged_df.exc # "none" THEN merged_df
                 ELSE sort_values(merged_df)

----------------------------------------------------------------------------
(* The payloads a forecast provider can answer with *)

RECURSIVE SeqsUpTo(_, _)
SeqsUpTo(S, n) ==
    IF n = 0 THEN {<<>>}
    ELSE LET shorter == SeqsUpTo(S, n - 1)
         IN  shorter \cup {Append(s, x) : s \in {t \in shorter : Len(t) = n - 1}, x \in S}

\* the k-th variable's array for n days; the first value of the first variable
\* is a real zero
FullArray(k, n) == [kind |-> "list", items |-> [i \in 1..n |-> Num(10 * (k - 1) + i - 1)]]

ShortArray(k, n) ==
    [kind |-> "list", items |-> [i \in 1..(IF n = 0 THEN 0 ELSE n - 1) |-> Num(10 * (k - 1) + i - 1)]]

DefectArray(kind, k, n) ==
    IF kind = "short" THEN ShortArray(k, n)
    ELSE [kind |-> kind, items |-> <<>>]

\* the arrays of a "daily" object of n days: all complete, or one of them with
\* its key missing, null, or one element short
ArrayConfigs(n) ==
    {[key \in Range(OpenMeteoKeys) |->
        LET k == CHOOSE j \in 1..4 : OpenMeteoKeys[j] = key
        IN  IF k = bad THEN DefectArray(kind, k, n) ELSE FullArray(k, n)] :
     bad \in 0..4, kind \in {"missing", "null", "short"}}

\* {} as returned after a non-200 response
EmptyOpenMeteo == [has_daily |-> FALSE, daily |-> NoDaily]

OpenMeteoPayloads ==
    {EmptyOpenMeteo} \cup
    UNION {{[has_daily |-> TRUE, daily |-> [time |-> t, arrays |-> a]] :
                a \in ArrayConfigs(Len(t))} : t \in SeqsUpTo(ForecastDates, MaxDays)}

\* the per-day objects: every field there, or the first or the last one missing
WeatherbitDays ==
    {[datetime |-> d,
      fields |-> [key \in Range(WeatherbitKeys) |->
          LET k == CHOOSE j \in 1..4 : WeatherbitKeys[j] = key
          IN  IF k = bad THEN Missing ELSE Num(50 + 10 * (k - 1) + d)]] :
     d \in ForecastDates, bad \in {0, 1, 4}}

EmptyWeatherbit == [has_data |-> FALSE, data |-> <<>>]

WeatherbitPayloads ==
    {EmptyWeatherbit} \cup
    {[has_data |-> TRUE, data |-> s] : s \in SeqsUpTo(WeatherbitDays, MaxDays)}

----------------------------------------------------------------------------
(* The forecast branch of generate_weather_report *)

InitForecast ==
    /\ pc = "get_weatherbit_forecast"
    /\ weatherbit_data = EmptyWeatherbit
    /\ open_meteo_data = EmptyOpenMeteo
    /\ df_openmeteo = EmptyFrame
    /\ df_weatherbit = EmptyFrame
    /\ forecast_df_merged = EmptyFrame
    /\ noaa_data = <<>>
    /\ historical_df = EmptyFrame
    /\ summary_historical_df = EmptyFrame
    /\ daily_historical_df = EmptyFrame
    /\ OtherIdle

\* get_weatherbit_forecast: the JSON body on 200, {} otherwise
GetWeatherbitForecast ==
    /\ pc = "get_weatherbit_forecast"
    /\ \E status \in {200, 500}, body \in WeatherbitPayloads :
          weatherbit_data' = IF status = 200 THEN body ELSE EmptyWeatherbit
    /\ pc' = "get_open_meteo_forecast"
    /\ UNCHANGED <<open_meteo_data, df_openmeteo, df_weatherbit, forecast_df_merged>>
    /\ UNCHANGED <<historical_vars, other_vars>>

\* get_open_meteo_forecast: the JSON body on 200, {} otherwise
GetOpenMeteoForecast ==
    /\ pc = "get_open_meteo_forecast"
    /\ \E status \in {200, 500}, body \in OpenMeteoPayloads :
          open_meteo_data' = IF status = 200 THEN body ELSE EmptyOpenMeteo
    /\ pc' = "merge_forecasts"
    /\ UNCHANGED <<weatherbit_data, df_openmeteo, df_weatherbit, forecast_df_merged>>
    /\ UNCHANGED <<historical_vars, other_vars>>

\* forecast_df_merged = merge_forecasts(open_meteo_data, weatherbit_data,
\* normalize_forecast); an exception leaves generate_weather_report
MergeForecasts ==
    /\ pc = "merge_forecasts"
    /\ LET dfo == normalize_forecast(open_meteo_data, "open_meteo")
           dfw == normalize_forecast(weatherbit_data, "weatherbit")
           out == merge_forecasts(open_meteo_data, weatherbit_data)
       IN  /\ df_openmeteo' = dfo
           /\ df_weatherbit' = IF dfo.exc = "none" THEN dfw ELSE df_weatherbit
           /\ forecast_df_merged' = out
           /\ pc' = IF out.exc = "none" THEN "merged" ELSE "raised"
    /\ UNCHANGED <<weatherbit_data, open_meteo_data>>
    /\ UNCHANGED <<historical_vars, other_vars>>

NextForecast == GetWeatherbitForecast \/ GetOpenMeteoForecast \/ MergeForecasts

SpecForecast == InitForecast /\ [][NextForecast]_vars

----------------------------------------------------------------------------
(* Claims on the forecast branch *)

MergeReturnedOrRaised == pc \in {"merged", "raised"}

BothNormalized ==
    /\ MergeReturnedOrRaised
    /\ df_openmeteo.exc = "none"
    /\ normalize_forecast(weatherbit_data, "weatherbit").exc = "none"

AllNull(row, cols) == \A c \in Range(cols) : IsNull(row[c])

\* C1: merge_forecasts is a full outer join on date: for any two payloads that
\* normalize, every date of either normalized input is in exactly one row of the
\* merged table, and in the row of a date that one source lacks, that source's
\* four columns are null.
C1_FullOuterJoin ==
    BothNormalized =>
        LET dfo == df_openmeteo
            dfw == normalize_forecast(weatherbit_data, "weatherbit")
            out == forecast_df_merged
        IN  \A d \in DatesOf(dfo) \cup DatesOf(dfw) :
               /\ Cardinality(RowsOn(out, d)) = 1
               /\ \A i \in RowsOn(out, d) :
                     /\ d \notin DatesOf(dfo) => AllNull(out.rows[i], OpenMeteoCols)
                     /\ d \notin DatesOf(dfw) => AllNull(out.rows[i], WeatherbitCols)

\* the table `df` widened by the null columns of the other source
WithNullColumns(df) ==
    [i \in 1..Len(df.rows) |->
        JoinedRow(df.rows[i]["date"], df.rows[i], HasColumn(df, OpenMeteoCols[1]),
                  df.rows[i], HasColumn(df, WeatherbitCols[1]))]

SameRows(a, b) == /\ Len(a) = Len(b)
                  /\ \A r \in Range(a) :
                        Cardinality({i \in 1..Len(a) : a[i] = r})
                            = Cardinality({i \in 1..Len(b) : b[i] = r})

ExactlyOneEmpty ==
    /\ BothNormalized
    /\ (df_openmeteo.rows = <<>>)
          # (normalize_forecast(weatherbit_data, "weatherbit").rows = <<>>)

\* C2: when exactly one of the two payloads is empty, merge_forecasts does not
\* raise and returns the rows of the other source's normalized table, with the
\* empty source's four columns there and null in every row.
C2_OneEmptySource ==
    ExactlyOneEmpty =>
        LET dfo == df_openmeteo
            dfw == normalize_forecast(weatherbit_data, "weatherbit")
            other == IF dfo.rows = <<>> THEN dfw ELSE dfo
        IN  /\ forecast_df_merged.exc = "none"
            /\ Range(OpenMeteoCols) \cup Range(WeatherbitCols)
                  \subseteq Range(forecast_df_merged.columns)
            /\ SameRows(forecast_df_merged.rows, WithNullColumns(other))

\* C3: the table merge_forecasts returns is sorted ascending by date: in every
\* pair of consecutive rows the earlier row's date is at most the later row's.
C3_SortedByDate ==
    pc = "merged" =>
        \A i \in 1..(Len(forecast_df_merged.rows) - 1) :
            forecast_df_merged.rows[i]["date"] <= forecast_df_merged.rows[i + 1]["date"]

\* C3 witness: a merge returned whose join, before the sort, had a later date
\* in front of an earlier one
C3_Witness ==
    /\ pc = "merged"
    /\ LET joined == pd_merge(df_openmeteo, df_weatherbit).rows
       IN  \E i \in 1..(Len(joined) - 1) : joined[i]["date"] > joined[i + 1]["date"]

\* C4: normalize_forecast never raises on a malformed or incomplete payload of
\* either shape, and gives a table with one row per date of the payload.
C4_NormalizeNeverRaises ==
    MergeReturnedOrRaised =>
        /\ df_openmeteo.exc = "none"
        /\ Len(df_openmeteo.rows) =
              (IF open_meteo_data.has_daily THEN Len(open_meteo_data.daily.time) ELSE 0)
        /\ normalize_forecast(weatherbit_data, "weatherbit").exc = "none"
        /\ Len(normalize_forecast(weatherbit_data, "weatherbit").rows)
              = Len(weatherbit_data.data)

----------------------------------------------------------------------------
(* The historical records *)

\* longest list of records get_noaa_10yr_historical answers with
MaxRecords == 2

\* the record dates: day is the calendar day as the number YYYYMMDD, hour the
\* time of day of the timestamp ("2024-07-04T00:00:00" is day 20240704, hour 0)
NoaaDates ==
    {[day |-> 20230704, hour |-> 0], [day |-> 20240704, hour |-> 0],
     [day |-> 20240704, hour |-> 12], [day |-> 20240705, hour |-> 0]}

\* the datatype codes of the records: two of the four requested ones (the
\* other two columns are filled by normalize_noaa_data) and a foreign one
NoaaDatatypes == {"TMAX", "TMIN", "SNOW"}

\* the values of the records: numbers, null, and a text that is no number
NoaaValues == {Num(1), Num(2), NA, Unparseable}

NoaaRecords == [date : NoaaDates, datatype : NoaaDatatypes, value : NoaaValues]

NoaaTypes == <<"TMAX", "TMIN", "PRCP", "AWND">>

NoaaCols ==
    <<"temp_max-degC-noaa", "temp_min-degC-noaa", "precip-mm-noaa",
      "wind_max-mpersec-noaa">>

\* the "date" cells of the historical table: a "YYYY-MM-DD" string, or the
\* timestamp pd.to_datetime makes of it
DateStr(day) == [kind |-> "date_str", val |-> day]
Timestamp(day) == [kind |-> "datetime", val |-> day]

\* the year kept in the key
MonthDayOf_with_year(day) == day

\* dt.strftime("%m-%d"): the year is dropped
MonthDayOf(day) == day % 10000
MonthDay(day) == [kind |-> "month_day", val |-> MonthDayOf(day)]

----------------------------------------------------------------------------
(* normalize_noaa_data *)

\* the timestamp kept as it is, time of day included
CalendarDay_with_time(date) == date.day * 100 + date.hour

\* pd.to_datetime(df['date']).dt.strftime('%Y-%m-%d'): the time of day is dropped
CalendarDay(date) == date.day

\* aggfunc='last': the last value of the group that is not null
Last(raw, day, datatype) ==
    LET g == SelectSeq(raw, LAMBDA r : /\ CalendarDay(r.date) = day
                                       /\ r.datatype = datatype
                                       /\ ~IsNull(r.value))
    IN  IF g = <<>> THEN NA ELSE g[Len(g)].value

\* aggfunc='first' of one (date, datatype) group: the first value in input
\* order that is not null, null when the group has none
First(raw, day, datatype) ==
    LET g == SelectSeq(raw, LAMBDA r : /\ CalendarDay(r.date) = day
                                       /\ r.datatype = datatype
                                       /\ ~IsNull(r.value))
    IN  IF g = <<>> THEN NA ELSE g[1].value

\* pivot_table drops the (date, datatype) groups whose aggregate is null
\* (dropna=True); the index is the dates that are left, the columns the
\* datatypes that are left
PivotIndex(raw) ==
    {CalendarDay(raw[i].date) : i \in {j \in 1..Len(raw) :
        ~IsNull(First(raw, CalendarDay(raw[j].date), raw[j].datatype))}}

PivotColumns(raw) ==
    {raw[i].datatype : i \in {j \in 1..Len(raw) :
        ~IsNull(First(raw, CalendarDay(raw[j].date), raw[j].datatype))}}

RECURSIVE SortedSeq(_)
SortedSeq(S) ==
    IF S = {} THEN <<>>
    ELSE LET m == CHOOSE x \in S : \A y \in S : x <= y
         IN  <<m>> \o SortedSeq(S \ {m})

\* the rename with TMAX and TMIN exchanged
Rename_swapped(datatype) ==
    IF datatype = "TMAX" THEN "temp_min-degC-noaa"
    ELSE IF datatype = "TMIN" THEN "temp_max-degC-noaa"
    ELSE IF datatype = "PRCP" THEN "precip-mm-noaa"
    ELSE IF datatype = "AWND" THEN "wind_max-mpersec-noaa"
    ELSE datatype

\* the rename of the datatype columns
Rename(datatype) ==
    IF datatype = "TMAX" THEN "temp_max-degC-noaa"
    ELSE IF datatype = "TMIN" THEN "temp_min-degC-noaa"
    ELSE IF datatype = "PRCP" THEN "precip-mm-noaa"
    ELSE IF datatype = "AWND" THEN "wind_max-mpersec-noaa"
    ELSE datatype

\* one row of the pivot after the rename, the pd.NA columns for the expected
\* columns it lacks, and the selection of the expected columns
PivotRow(raw, day) ==
    [c \in {"date"} \cup Range(NoaaCols) |->
        IF c = "date" THEN DateStr(day)
        ELSE LET has == {t \in PivotColumns(raw) : Rename(t) = c}
             IN  IF has = {} THEN NA ELSE First(raw, day, CHOOSE t \in has : TRUE)]

\* the pivot, renamed, completed and reordered to the expected columns
PivotTable(noaa_raw_data) ==
    LET index == SortedSeq(PivotIndex(noaa_raw_data))
    IN  [exc |-> "none",
         columns |-> <<"date">> \o NoaaCols,
         rows |-> [i \in 1..Len(index) |-> PivotRow(noaa_raw_data, index[i])]]

\* without the early return: pd.DataFrame([]) has no "date" column to convert
normalize_noaa_data_unguarded(noaa_raw_data) ==
    IF noaa_raw_data = <<>> THEN Raised("KeyError") ELSE PivotTable(noaa_raw_data)

normalize_noaa_data(noaa_raw_data) ==
    IF noaa_raw_data = <<>>
    THEN [exc |-> "none", columns |-> <<"date">> \o NoaaCols, rows |-> <<>>]
    ELSE PivotTable(noaa_raw_data)

----------------------------------------------------------------------------
(* Statistics *)

\* a statistic: NaN, the fraction num/den, or the square root of num/den
NaN == [kind |-> "nan", num |-> 0, den |-> 1]
Frac(n, d) == [kind |-> "frac", num |-> n, den |-> d]
Sqrt(n, d) == [kind |-> "sqrt", num |-> n, den |-> d]

RECURSIVE GCD(_, _)
GCD(a, b) == IF b = 0 THEN a ELSE GCD(b, a % b)

Reduced(n, d) == LET g == GCD(n, d) IN <<n \div g, d \div g>>

\* pd.to_numeric(errors="coerce") of one cell: a text that is no number and a
\* null both become NaN
to_numeric(c) == IF c.kind = "num" THEN c ELSE NA

\* the numbers of column col in the rows, after the coercion
RECURSIVE NumbersOf(_, _)
NumbersOf(rows, col) ==
    IF rows = <<>> THEN <<>>
    ELSE LET c == to_numeric(rows[1][col])
         IN  (IF IsNull(c) THEN <<>> ELSE <<c.val>>) \o NumbersOf(Tail(rows), col)

RECURSIVE Sum(_)
Sum(xs) == IF xs = <<>> THEN 0 ELSE xs[1] + Sum(Tail(xs))

RECURSIVE SumSq(_)
SumSq(xs) == IF xs = <<>> THEN 0 ELSE xs[1] * xs[1] + SumSq(Tail(xs))

\* count(): the values that are not NaN
Count(xs) == Len(xs)

\* mean(): NaN of no value
Mean(xs) ==
    IF Len(xs) = 0 THEN NaN
    ELSE LET r == Reduced(Sum(xs), Len(xs)) IN Frac(r[1], r[2])

\* std() with ddof=0: the population standard deviation
Std_population(xs) ==
    LET n == Len(xs) IN
    IF n < 1 THEN NaN
    ELSE LET r == Reduced(n * SumSq(xs) - Sum(xs) * Sum(xs), n * n)
         IN  Sqrt(r[1], r[2])

\* std() with ddof=1: NaN of fewer than two values, else the square root of
\* (n*sum(x^2) - sum(x)^2) / (n*(n-1))
Std(xs) ==
    LET n == Len(xs) IN
    IF n < 2 THEN NaN
    ELSE LET r == Reduced(n * SumSq(xs) - Sum(xs) * Sum(xs), n * (n - 1))
         IN  Sqrt(r[1], r[2])

\* the least r with 100*sqrt(n/d) < r + 1/2
RECURSIVE RoundedRoot(_, _, _)
RoundedRoot(n, d, r) ==
    IF 40000 * n < (2 * r + 1) * (2 * r + 1) * d THEN r ELSE RoundedRoot(n, d, r + 1)

\* round(2) of a statistic, as hundredths
Round2(x) ==
    IF x.kind = "nan" THEN NaN
    ELSE IF x.kind = "frac" THEN Frac((200 * x.num + x.den) \div (2 * x.den), 100)
    ELSE Frac(RoundedRoot(x.num, x.den, 0), 100)

----------------------------------------------------------------------------
(* summarize_noaa_data *)

HasWeatherCols(df) == \A c \in Range(NoaaCols) : HasColumn(df, c)

\* how="any": only the rows with no null weather column are kept
dropna_any(rows) == SelectSeq(rows, LAMBDA r : \A c \in Range(NoaaCols) : ~IsNull(r[c]))

\* df.dropna(subset=weather_cols, how="all"): the rows with a weather column
\* that is not null
dropna(rows) == SelectSeq(rows, LAMBDA r : \E c \in Range(NoaaCols) : ~IsNull(r[c]))

\* the coercion of the variables written to the caller's table as well
DatesToDatetime_coercing(df) ==
    IF ~HasColumn(df, "date") THEN df
    ELSE [df EXCEPT !.rows = [i \in 1..Len(df.rows) |->
             [c \in DOMAIN df.rows[i] |->
                 IF c = "date" THEN Timestamp(df.rows[i]["date"].val)
                 ELSE IF c \in Range(NoaaCols) THEN to_numeric(df.rows[i][c])
                 ELSE df.rows[i][c]]]]

\* df["date"] = pd.to_datetime(df["date"]), on the caller's table
DatesToDatetime(df) ==
    IF ~HasColumn(df, "date") THEN df
    ELSE [df EXCEPT !.rows = [i \in 1..Len(df.rows) |->
             [df.rows[i] EXCEPT !["date"] = Timestamp(df.rows[i]["date"].val)]]]

summarize_noaa_data(df) ==
    IF ~HasWeatherCols(df) THEN Raised("KeyError")
    ELSE LET df_clean == dropna(df.rows)
         IN  [exc |-> "none",
              columns |-> <<"mean", "std", "count">>,
              rows |-> [i \in 1..4 |->
                  LET xs == NumbersOf(df_clean, NoaaCols[i])
                  IN  [index |-> NoaaCols[i],
                       mean |-> Round2(Mean(xs)),
                       std |-> Round2(Std(xs)),
                       count |-> Count(xs)]]]

----------------------------------------------------------------------------
(* summarize_noaa_daily_climatology *)

\* df["date"] = pd.to_datetime(...); df["month_day"] = df["date"].dt.strftime("%m-%d"),
\* on the caller's table
WithMonthDay(df) ==
    [exc |-> df.exc,
     columns |-> IF HasColumn(df, "month_day") THEN df.columns
                 ELSE Append(df.columns, "month_day"),
     rows |-> [i \in 1..Len(df.rows) |->
         [c \in DOMAIN df.rows[i] \cup {"month_day"} |->
             IF c = "date" THEN Timestamp(df.rows[i]["date"].val)
             ELSE IF c = "month_day" THEN MonthDay(df.rows[i]["date"].val)
             ELSE df.rows[i][c]]]]

Statistics == <<"mean", "std", "count">>

\* '-'.join(col) of the (variable, statistic) column pairs, in their order
FlatColumns ==
    [k \in 1..12 |-> NoaaCols[((k - 1) \div 3) + 1] \o "-" \o Statistics[((k - 1) % 3) + 1]]

\* the row of one month_day group
GroupRow(rows, key) ==
    LET g == SelectSeq(rows, LAMBDA r : r["month_day"].val = key)
    IN  [c \in {"month_day"} \cup Range(FlatColumns) |->
            IF c = "month_day" THEN [kind |-> "month_day", num |-> key, den |-> 1]
            ELSE LET k == CHOOSE j \in 1..12 : FlatColumns[j] = c
                     xs == NumbersOf(g, NoaaCols[((k - 1) \div 3) + 1])
                     stat == Statistics[((k - 1) % 3) + 1]
                 IN  IF stat = "mean" THEN Mean(xs)
                     ELSE IF stat = "std" THEN Std(xs)
                     ELSE Frac(Count(xs), 1)]

summarize_noaa_daily_climatology(df) ==
    IF ~HasColumn(df, "date") \/ ~HasWeatherCols(df) THEN Raised("KeyError")
    ELSE LET df_clean == dropna(WithMonthDay(df).rows)
             keys == SortedSeq({df_clean[i]["month_day"].val : i \in 1..Len(df_clean)})
         IN  [exc |-> "none",
              columns |-> <<"month_day">> \o FlatColumns,
              rows |-> [i \in 1..Len(keys) |-> GroupRow(df_clean, keys[i])]]

----------------------------------------------------------------------------
(* The historical branch of generate_weather_report *)

InitHistorical ==
    /\ pc = "get_noaa_10yr_historical"
    /\ weatherbit_data = EmptyWeatherbit
    /\ open_meteo_data = EmptyOpenMeteo
    /\ df_openmeteo = EmptyFrame
    /\ df_weatherbit = EmptyFrame
    /\ forecast_df_merged = EmptyFrame
    /\ noaa_data = <<>>
    /\ historical_df = EmptyFrame
    /\ summary_historical_df = EmptyFrame
    /\ daily_historical_df = EmptyFrame
    /\ OtherIdle

\* noaa_data, station_id = get_noaa_10yr_historical(...): the records of the
\* ten yearly ranges, in the order they were fetched
GetNoaaHistorical ==
    /\ pc = "get_noaa_10yr_historical"
    /\ noaa_data' \in SeqsUpTo(NoaaRecords, MaxRecords)
    /\ pc' = "normalize_noaa_data"
    /\ UNCHANGED <<other_vars, forecast_vars, historical_df, summary_historical_df,
                   daily_historical_df>>

\* historical_df = normalize_noaa_data(noaa_data)
NormalizeNoaaData ==
    /\ pc = "normalize_noaa_data"
    /\ historical_df' = normalize_noaa_data(noaa_data)
    /\ pc' = IF normalize_noaa_data(noaa_data).exc = "none" THEN "summarize_noaa_data"
             ELSE "raised_historical"
    /\ UNCHANGED <<other_vars, forecast_vars, noaa_data, summary_historical_df, daily_historical_df>>

\* summary_historical_df = summarize_noaa_data(historical_df); the call
\* rewrites the date column of historical_df
SummarizeNoaaData ==
    /\ pc = "summarize_noaa_data"
    /\ LET out == summarize_noaa_data(historical_df)
       IN  /\ summary_historical_df' = out
           /\ historical_df' = DatesToDatetime(historical_df)
           /\ pc' = IF out.exc = "none" THEN "summarize_noaa_daily_climatology"
                    ELSE "raised_historical"
    /\ UNCHANGED <<other_vars, forecast_vars, noaa_data, daily_historical_df>>

\* daily_historical_df = summarize_noaa_daily_climatology(historical_df); the
\* call rewrites the date column of historical_df and adds month_day to it
SummarizeNoaaDailyClimatology ==
    /\ pc = "summarize_noaa_daily_climatology"
    /\ LET out == summarize_noaa_daily_climatology(historical_df)
       IN  /\ daily_historical_df' = out
           /\ historical_df' = IF out.exc = "none" THEN WithMonthDay(historical_df)
                               ELSE historical_df
           /\ pc' = IF out.exc = "none" THEN "summarized" ELSE "raised_historical"
    /\ UNCHANGED <<other_vars, forecast_vars, noaa_data, summary_historical_df>>

NextHistorical ==
    \/ GetNoaaHistorical
    \/ NormalizeNoaaData
    \/ SummarizeNoaaData
    \/ SummarizeNoaaDailyClimatology

SpecHistorical == InitHistorical /\ [][NextHistorical]_vars

----------------------------------------------------------------------------
(* Claims on the historical branch *)

\* normalize_noaa_data has returned and no summarizer has run yet
Normalized == pc = "summarize_noaa_data"

Records == 1..Len(noaa_data)

DayOf(i) == noaa_data[i].date.day

InputDays == {DayOf(i) : i \in Records}

RecordsOf(day, datatype) ==
    {i \in Records : DayOf(i) = day /\ noaa_data[i].datatype = datatype}

ValuedRecordsOf(day, datatype) ==
    {i \in RecordsOf(day, datatype) : ~IsNull(noaa_data[i].value)}

ValuedDays == {DayOf(i) : i \in {j \in Records : ~IsNull(noaa_data[j].value)}}

TableDays(df) == {df.rows[i]["date"].val : i \in 1..Len(df.rows)}

RowOf(df, day) == df.rows[CHOOSE i \in 1..Len(df.rows) : df.rows[i]["date"].val = day]

CanonicalColumns(df) ==
    /\ Len(df.columns) = 5
    /\ Range(df.columns) = {"date"} \cup Range(NoaaCols)

\* C5 as stated: one row per distinct calendar date occurring in the input, the
\* five canonical columns, and a cell is null exactly when the input has no
\* record of that (date, variable) pair.
C5_PivotPerInputDate ==
    (Normalized /\ noaa_data # <<>>) =>
        /\ TableDays(historical_df) = InputDays
        /\ Len(historical_df.rows) = Cardinality(InputDays)
        /\ CanonicalColumns(historical_df)
        /\ \A d \in TableDays(historical_df), k \in 1..4 :
              IsNull(RowOf(historical_df, d)[NoaaCols[k]])
                  <=> RecordsOf(d, NoaaTypes[k]) = {}

\* C5 amended: one row per distinct calendar date for which the input has a
\* record with a value that is not null, the five canonical columns, and a cell
\* is null exactly when the input has no record with a non-null value of that
\* (date, variable) pair.
C5_PivotPerValuedDate ==
    (Normalized /\ noaa_data # <<>>) =>
        /\ TableDays(historical_df) = ValuedDays
        /\ Len(historical_df.rows) = Cardinality(ValuedDays)
        /\ CanonicalColumns(historical_df)
        /\ \A d \in TableDays(historical_df), k \in 1..4 :
              IsNull(RowOf(historical_df, d)[NoaaCols[k]])
                  <=> ValuedRecordsOf(d, NoaaTypes[k]) = {}

\* C5 witness: a pivot of two records of one calendar date with different
\* times of day, in which one variable has a value and another has none
C5_Witness ==
    /\ Normalized
    /\ \E i, j \in Records :
          /\ DayOf(i) = DayOf(j)
          /\ noaa_data[i].date.hour # noaa_data[j].date.hour
    /\ \E d \in TableDays(historical_df) :
          /\ ~IsNull(RowOf(historical_df, d)[NoaaCols[1]])
          /\ IsNull(RowOf(historical_df, d)[NoaaCols[2]])

\* C6 as stated: of several records of one (date, variable) pair the value of
\* the first record in input order is kept, also when that value is null.
C6_FirstRecordWins ==
    Normalized =>
        \A d \in TableDays(historical_df), k \in 1..4 :
            RecordsOf(d, NoaaTypes[k]) # {} =>
                LET first == CHOOSE i \in RecordsOf(d, NoaaTypes[k]) :
                                 \A j \in RecordsOf(d, NoaaTypes[k]) : i <= j
                IN  RowOf(historical_df, d)[NoaaCols[k]] = noaa_data[first].value

\* C6 amended: of several records of one (date, variable) pair the value of the
\* first record in input order whose value is not null is kept, and the values
\* of all later records are discarded.
C6_FirstValueWins ==
    Normalized =>
        \A d \in InputDays, k \in 1..4 :
            ValuedRecordsOf(d, NoaaTypes[k]) # {} =>
                LET first == CHOOSE i \in ValuedRecordsOf(d, NoaaTypes[k]) :
                                 \A j \in ValuedRecordsOf(d, NoaaTypes[k]) : i <= j
                IN  /\ d \in TableDays(historical_df)
                    /\ RowOf(historical_df, d)[NoaaCols[k]] = noaa_data[first].value

\* C6 witness: a pivot of two records of one pair with two different values
\* that are not null
C6_Witness ==
    /\ Normalized
    /\ \E d \in InputDays, k \in 1..4 :
          \E i, j \in ValuedRecordsOf(d, NoaaTypes[k]) :
              i < j /\ noaa_data[i].value # noaa_data[j].value

SummaryCount(k) == summary_historical_df.rows[k].count

\* C7: for an empty input normalize_noaa_data returns a table of no rows with
\* the five canonical columns, and both summarizers take it without raising:
\* every count of the summary is 0 and the climatology table has no rows.
C7_EmptyInput ==
    noaa_data = <<>> =>
        /\ pc # "raised_historical"
        /\ Normalized =>
              /\ historical_df.exc = "none"
              /\ historical_df.rows = <<>>
              /\ historical_df.columns = <<"date">> \o NoaaCols
        /\ pc \in {"summarize_noaa_daily_climatology", "summarized"} =>
              /\ summary_historical_df.exc = "none"
              /\ Len(summary_historical_df.rows) = 4
              /\ \A k \in 1..4 : SummaryCount(k) = 0
        /\ pc = "summarized" =>
              /\ daily_historical_df.exc = "none"
              /\ daily_historical_df.rows = <<>>

\* C7 witness: both summarizers have returned for an empty input
C7_Witness == pc = "summarized" /\ noaa_data = <<>>

\* the records that carry a value of one of the four variables, by calendar date
Triples ==
    {[day |-> DayOf(i), datatype |-> noaa_data[i].datatype, value |-> noaa_data[i].value] :
        i \in {j \in Records : /\ noaa_data[j].datatype \in Range(NoaaTypes)
                               /\ ~IsNull(noaa_data[j].value)}}

\* the cells of the table that are not null, as triples again
Flatten(df) ==
    {[day |-> df.rows[p[1]]["date"].val, datatype |-> NoaaTypes[p[2]],
      value |-> df.rows[p[1]][NoaaCols[p[2]]]] :
        p \in {q \in (1..Len(df.rows)) \X (1..4) : ~IsNull(df.rows[q[1]][NoaaCols[q[2]]])}}

NoDuplicatePair ==
    \A i, j \in Records :
        (/\ i # j
         /\ ~IsNull(noaa_data[i].value)
         /\ ~IsNull(noaa_data[j].value)
         /\ noaa_data[i].datatype = noaa_data[j].datatype)
            => DayOf(i) # DayOf(j)

\* C8: round trip of the pivot: when no two triples have the same (date,
\* variable) pair, the non-null cells of the table, flattened, are exactly the
\* triples of the input.
C8_RoundTrip ==
    (Normalized /\ NoDuplicatePair) => Flatten(historical_df) = Triples

\* C8 witness: a pivot of two triples of different variables without duplicate
C8_Witness ==
    /\ Normalized
    /\ NoDuplicatePair
    /\ \E s, t \in Triples : s.datatype # t.datatype /\ s.value # t.value

\* the rows of the historical table that hold a number of the k-th variable
NumericRows(k) ==
    {i \in 1..Len(historical_df.rows) : historical_df.rows[i][NoaaCols[k]].kind = "num"}

\* C9: the count of each variable in the summary is the number of historical
\* rows that hold a number of that variable, whatever the other three variables
\* of those rows are.
C9_CountPerVariable ==
    pc \in {"summarize_noaa_daily_climatology", "summarized"} =>
        \A k \in 1..4 : SummaryCount(k) = Cardinality(NumericRows(k))

\* C9 witness: a summary whose counts differ, of a table of two rows with a row
\* that has one variable and lacks another
C9_Witness ==
    /\ pc = "summarize_noaa_daily_climatology"
    /\ Len(historical_df.rows) = 2
    /\ SummaryCount(1) # SummaryCount(2)
    /\ NumericRows(1) \ NumericRows(2) # {}

ClimatologyKeys ==
    {daily_historical_df.rows[i]["month_day"].num : i \in 1..Len(daily_historical_df.rows)}

ClimatologyCount(key, k) ==
    LET row == daily_historical_df.rows[
                   CHOOSE i \in 1..Len(daily_historical_df.rows) :
                       daily_historical_df.rows[i]["month_day"].num = key]
    IN  row[NoaaCols[k] \o "-count"].num

\* C10: both summarizers leave a row out of every statistic when it has no
\* number (all four variables null or unparseable), count a partially filled
\* row for the variables it has only, and do not raise; a row without a number
\* makes no climatology group of its own.
C10_RowsWithoutNumber ==
    pc \in {"summarized", "raised_historical"} =>
        /\ pc = "summarized"
        /\ \A k \in 1..4 : SummaryCount(k) = Cardinality(NumericRows(k))
        /\ ClimatologyKeys =
              {MonthDayOf(historical_df.rows[i]["date"].val) :
                  i \in UNION {NumericRows(k) : k \in 1..4}}
        /\ \A key \in ClimatologyKeys, k \in 1..4 :
              ClimatologyCount(key, k) =
                  Cardinality({i \in NumericRows(k) :
                      MonthDayOf(historical_df.rows[i]["date"].val) = key})

----------------------------------------------------------------------------
(* Calendar dates, as datetime.date computes them; a date is the number    *)
(* YYYYMMDD                                                                *)

YearOf(d) == d \div 10000
MonthOf(d) == (d \div 100) % 100
DayOfMonth(d) == d % 100
MkDate(y, m, d) == y * 10000 + m * 100 + d

IsLeap(y) == (y % 4 = 0 /\ y % 100 # 0) \/ y % 400 = 0

DaysInMonth(y, m) ==
    IF m = 2 THEN (IF IsLeap(y) THEN 29 ELSE 28)
    ELSE IF m \in {4, 6, 9, 11} THEN 30 ELSE 31

NextDay(d) ==
    IF DayOfMonth(d) < DaysInMonth(YearOf(d), MonthOf(d)) THEN d + 1
    ELSE IF MonthOf(d) < 12 THEN MkDate(YearOf(d), MonthOf(d) + 1, 1)
    ELSE MkDate(YearOf(d) + 1, 1, 1)

\* d + timedelta(days=n)
RECURSIVE AddDays(_, _)
AddDays(d, n) == IF n = 0 THEN d ELSE AddDays(NextDay(d), n - 1)

----------------------------------------------------------------------------
(* The climatology of a window of days observed in several years *)

\* the width of the yearly window, the default of days_back
WindowDays == 7

\* the most years a window is observed in
MaxYears == 2

\* the years of the windows, the most recent first
WindowYears == <<2024, 2023, 2022, 2021>>

\* the first days of the windows, as month-day numbers: midsummer, across the
\* turn of the year, across the end of February
WindowStarts == {701, 1229, 226}

\* the value observed in year y on the i-th day of the window for variable k
Observation(y, i, k) == Num(10 * k + ((y + i) % 3))

\* the records of n yearly windows beginning on month-day md: the most recent
\* year first, within a year by date, all four variables on every day
WindowRecords(md, n) ==
    [p \in 1..(n * WindowDays * 4) |->
        LET y == WindowYears[((p - 1) \div (WindowDays * 4)) + 1]
            i == ((p - 1) % (WindowDays * 4)) \div 4
            k == ((p - 1) % 4) + 1
        IN  [date |-> [day |-> AddDays(y * 10000 + md, i), hour |-> 0],
             datatype |-> NoaaTypes[k],
             value |-> Observation(y, i, k)]]

\* records with the observation at position g missing: not sent at all, or
\* sent with a null value
WithoutRecord(raw, g) == SubSeq(raw, 1, g - 1) \o SubSeq(raw, g + 1, Len(raw))
WithNullValue(raw, g) == [raw EXCEPT ![g].value = NA]

GapPositions == {1, 6, 27}

\* the two records of the worked example
ExampleRecords ==
    <<[date |-> [day |-> 20240704, hour |-> 0], datatype |-> "TMAX", value |-> Num(32)],
      [date |-> [day |-> 20230704, hour |-> 0], datatype |-> "TMAX", value |-> Num(30)]>>

WindowInputs ==
    {ExampleRecords} \cup
    UNION {{WindowRecords(md, n)} \cup
           {WithoutRecord(WindowRecords(md, n), g) : g \in GapPositions} \cup
           {WithNullValue(WindowRecords(md, n), g) : g \in GapPositions}
           : md \in WindowStarts, n \in 1..MaxYears}

InitClimatology ==
    /\ pc = "get_noaa_10yr_historical"
    /\ weatherbit_data = EmptyWeatherbit
    /\ open_meteo_data = EmptyOpenMeteo
    /\ df_openmeteo = EmptyFrame
    /\ df_weatherbit = EmptyFrame
    /\ forecast_df_merged = EmptyFrame
    /\ noaa_data = <<>>
    /\ historical_df = EmptyFrame
    /\ summary_historical_df = EmptyFrame
    /\ daily_historical_df = EmptyFrame
    /\ OtherIdle

\* noaa_data, station_id = get_noaa_10yr_historical(...), answering with the
\* records of yearly windows
GetNoaaWindows ==
    /\ pc = "get_noaa_10yr_historical"
    /\ noaa_data' \in WindowInputs
    /\ pc' = "normalize_noaa_data"
    /\ UNCHANGED <<other_vars, forecast_vars, historical_df, summary_historical_df,
                   daily_historical_df>>

NextClimatology ==
    \/ GetNoaaWindows
    \/ NormalizeNoaaData
    \/ SummarizeNoaaData
    \/ SummarizeNoaaDailyClimatology

SpecClimatology == InitClimatology /\ [][NextClimatology]_vars

----------------------------------------------------------------------------
(* Claims on the climatology *)

Summarized == pc = "summarized"

TableYears == {YearOf(d) : d \in TableDays(historical_df)}

\* the month and day of a date YYYYMMDD
DayInYear(d) == d - (d \div 10000) * 10000

MonthDaysIn(y) == {DayInYear(d) : d \in {e \in TableDays(historical_df) : YearOf(e) = y}}

\* the table covers the same WindowDays calendar days in each of its years,
\* and no observation is missing
CompleteWindows ==
    /\ TableYears # {}
    /\ \A y, z \in TableYears : MonthDaysIn(y) = MonthDaysIn(z)
    /\ \A y \in TableYears : Cardinality(MonthDaysIn(y)) = WindowDays
    /\ \A i \in 1..Len(historical_df.rows), k \in 1..4 :
          historical_df.rows[i][NoaaCols[k]].kind = "num"

\* C11: the climatology has one row per distinct month-day key of the
\* historical table, the year discarded, and the columns "<variable>-mean",
\* "<variable>-std", "<variable>-count" of each variable; of a table that
\* covers the same 7 calendar days in each of N years with no observation
\* missing it has exactly 7 rows, and every count is N.
C11_RowPerMonthDay ==
    Summarized =>
        /\ \A k \in 1..4, s \in 1..3 :
              HasColumn(daily_historical_df, NoaaCols[k] \o "-" \o Statistics[s])
        /\ Len(daily_historical_df.columns) = 13
        /\ Cardinality(ClimatologyKeys) = Len(daily_historical_df.rows)
        /\ ClimatologyKeys \subseteq {DayInYear(d) : d \in TableDays(historical_df)}
        /\ CompleteWindows =>
              /\ Len(daily_historical_df.rows) = WindowDays
              /\ \A key \in ClimatologyKeys, k \in 1..4 :
                    ClimatologyCount(key, k) = Cardinality(TableYears)

C11_Witness ==
    /\ Summarized
    /\ CompleteWindows
    /\ Cardinality(TableYears) = 2
    /\ Len(daily_historical_df.rows) = WindowDays
    /\ \A key \in ClimatologyKeys : ClimatologyCount(key, 1) = 2

ExampleRow == daily_historical_df.rows[1]

\* C13: the records (2024-07-04, TMAX, 32.0) and (2023-07-04, TMAX, 30.0),
\* normalized and summarized, give exactly one climatology row: month_day
\* "07-04", maximum temperature mean 31.0, standard deviation 1.41 when rounded
\* to two decimals, count 2.
C13_WorkedExample ==
    (Summarized /\ noaa_data = ExampleRecords) =>
        /\ Len(daily_historical_df.rows) = 1
        /\ ExampleRow["month_day"].num = 704
        /\ ExampleRow["temp_max-degC-noaa-mean"] = Frac(31, 1)
        /\ Round2(ExampleRow["temp_max-degC-noaa-std"]) = Frac(141, 100)
        /\ ExampleRow["temp_max-degC-noaa-count"] = Frac(2, 1)

C13_Witness ==
    /\ Summarized
    /\ noaa_data = ExampleRecords
    /\ Len(daily_historical_df.rows) = 1
    /\ ExampleRow["temp_max-degC-noaa-std"] = Sqrt(2, 1)

----------------------------------------------------------------------------
(* generate_past_10yr_ranges and the loop of get_noaa_10yr_historical *)

\* range(1, 11): the number of past years
PastYears == 10

\* the largest days_back, besides the default
MaxDaysBack == 2

DaysBackChoices == (1..MaxDaysBack) \cup {WindowDays}

\* the values of date.today(): midsummer, before the end of February in a
\* common year, the leap day, the end of February in a leap year, the end of
\* the year
Todays == {20250704, 20250225, 20240229, 20240228, 20251228}

\* today.replace(year=y), and today.replace(year=y, day=28) when that raises
\* ValueError (Feb 29 in a year that has none)
ReplaceYear(d, y) ==
    IF MonthOf(d) = 2 /\ DayOfMonth(d) = 29 /\ ~IsLeap(y) THEN MkDate(y, 2, 28)
    ELSE MkDate(y, MonthOf(d), DayOfMonth(d))

generate_past_10yr_ranges(now, back) ==
    [i \in 1..PastYears |->
        LET start == ReplaceYear(now, YearOf(now) - i)
        IN  <<start, AddDays(start, back)>>]

\* the days from start to end, both included
RECURSIVE DaysBetween(_, _)
DaysBetween(start, end) ==
    IF start > end THEN <<>>
    ELSE IF start = end THEN <<start>>
    ELSE <<start>> \o DaysBetween(NextDay(start), end)

\* what the source has on record: every day, or every day but the last one of
\* the range asked for (RangeRecords also knows "start_date_only")
Archives == {"every_day", "not_the_end_date"}

\* the records the source answers a range with (startdate and enddate are
\* both part of the range): one maximum temperature per day on record
RangeRecords(range, kept) ==
    LET days == DaysBetween(range[1], range[2])
        n == IF kept = "every_day" THEN Len(days)
             ELSE IF kept = "start_date_only" THEN 1
             ELSE Len(days) - 1
    IN  [j \in 1..n |->
            [date |-> [day |-> days[j], hour |-> 0],
             datatype |-> "TMAX",
             value |-> Num(1 + (YearOf(days[j]) % 3))]]

InitRanges ==
    /\ pc = "generate_past_10yr_ranges"
    /\ weatherbit_data = EmptyWeatherbit
    /\ open_meteo_data = EmptyOpenMeteo
    /\ df_openmeteo = EmptyFrame
    /\ df_weatherbit = EmptyFrame
    /\ forecast_df_merged = EmptyFrame
    /\ noaa_data = <<>>
    /\ historical_df = EmptyFrame
    /\ summary_historical_df = EmptyFrame
    /\ daily_historical_df = EmptyFrame
    /\ today \in Todays
    /\ days_back \in DaysBackChoices
    /\ date_ranges = <<>>
    /\ ranges_done = 0
    /\ archive \in Archives
    /\ StationIdle
    /\ FetchIdle
    /\ ReportIdle

\* date_ranges = generate_past_10yr_ranges(days_back)
GeneratePastRanges ==
    /\ pc = "generate_past_10yr_ranges"
    /\ date_ranges' = generate_past_10yr_ranges(today, days_back)
    /\ pc' = "get_noaa_data_for_range"
    /\ UNCHANGED <<today, days_back, ranges_done, archive>>
    /\ UNCHANGED <<forecast_vars, historical_vars, station_vars, fetch_vars, report_vars>>

\* one iteration of "for start_date, end_date in date_ranges":
\* combined_results.extend(get_noaa_data_for_range(...)); after the last one
\* the list is returned to generate_weather_report
GetNoaaDataForRange ==
    /\ pc = "get_noaa_data_for_range"
    /\ ranges_done < Len(date_ranges)
    /\ noaa_data' = noaa_data \o RangeRecords(date_ranges[ranges_done + 1], archive)
    /\ ranges_done' = ranges_done + 1
    /\ pc' = IF ranges_done + 1 = Len(date_ranges) THEN "normalize_noaa_data"
             ELSE "get_noaa_data_for_range"
    /\ UNCHANGED <<today, days_back, date_ranges, archive>>
    /\ UNCHANGED <<forecast_vars, historical_df, summary_historical_df,
                   daily_historical_df, station_vars, fetch_vars, report_vars>>

NextRanges ==
    \/ GeneratePastRanges
    \/ GetNoaaDataForRange
    \/ NormalizeNoaaData
    \/ SummarizeNoaaData
    \/ SummarizeNoaaDailyClimatology

SpecRanges == InitRanges /\ [][NextRanges]_vars

\* C12: for every value of today's date and every days_back, the climatology
\* built from the data of the ten yearly ranges has at most days_back distinct
\* month-day keys and the historical table has at most 10 * days_back rows.
C12_WindowBound ==
    (Summarized /\ days_back > 0) =>
        /\ Cardinality(ClimatologyKeys) <= days_back
        /\ Len(historical_df.rows) <= 10 * days_back

\* the ranges as the code makes them: each covers days_back + 1 calendar days
C12_RangeDays ==
    \A i \in 1..Len(date_ranges) :
        Len(DaysBetween(date_ranges[i][1], date_ranges[i][2])) = days_back + 1

----------------------------------------------------------------------------
(* find_nearest_station *)

\* most stations of a listing
MaxStations == 3

\* s["id"] begins with one of these; only the first is the USW class
StationPrefixes == {"GHCND:USW", "GHCND:USC"}

\* geodesic((lat, lon), (s["latitude"], s["longitude"])).km of the stations
StationDistances == {1, 5, 9}

\* a station of a listing: its identifier (prefix and serial) and its distance
\* to the target coordinates
Stations == [prefix : StationPrefixes, km : StationDistances]

\* the "results" of a stations response: the i-th station has serial i
Listing(ss) == [i \in 1..Len(ss) |-> [id |-> [prefix |-> ss[i].prefix, serial |-> i],
                                     km |-> ss[i].km]]

\* what safe_noaa_request gives find_nearest_station: None, or a 200 response
StationResponses ==
    {None} \cup {[kind |-> "response", status_code |-> 200, results |-> Listing(ss)] :
                    ss \in SeqsUpTo(Stations, MaxStations)}

\* every station passes
StartsWithUSW_any(s) == TRUE

\* s["id"].startswith("GHCND:USW")
StartsWithUSW(s) == s.id.prefix = "GHCND:USW"

\* min(usw_stations, key=...): the first station of least distance
Closest(ss) ==
    ss[CHOOSE i \in 1..Len(ss) :
          /\ \A j \in 1..Len(ss) : ss[i].km <= ss[j].km
          /\ \A j \in 1..(i - 1) : ss[j].km > ss[i].km]

\* the value find_nearest_station returns for the response of its request
find_nearest_station(resp) ==
    IF resp # None /\ resp.status_code = 200
    THEN LET usw_stations == SelectSeq(resp.results, StartsWithUSW)
         IN  IF usw_stations = <<>> THEN None
             ELSE [kind |-> "id", id |-> Closest(usw_stations).id]
    ELSE None

InitStation ==
    /\ pc = "find_nearest_station"
    /\ weatherbit_data = EmptyWeatherbit
    /\ open_meteo_data = EmptyOpenMeteo
    /\ df_openmeteo = EmptyFrame
    /\ df_weatherbit = EmptyFrame
    /\ forecast_df_merged = EmptyFrame
    /\ noaa_data = <<>>
    /\ historical_df = EmptyFrame
    /\ summary_historical_df = EmptyFrame
    /\ daily_historical_df = EmptyFrame
    /\ RangesIdle
    /\ StationIdle
    /\ FetchIdle
    /\ ReportIdle

\* response = safe_noaa_request(url, headers, params)
RequestStations ==
    /\ pc = "find_nearest_station"
    /\ station_response' \in StationResponses
    /\ pc' = "select_station"
    /\ UNCHANGED <<forecast_vars, historical_vars, ranges_vars, fetch_vars, report_vars,
                   station_id>>

\* the rest of find_nearest_station, and the test of its result in
\* get_noaa_10yr_historical
SelectStation ==
    /\ pc = "select_station"
    /\ station_id' = find_nearest_station(station_response)
    /\ pc' = IF find_nearest_station(station_response) = None THEN "raised_ValueError"
             ELSE "station_found"
    /\ UNCHANGED <<forecast_vars, historical_vars, ranges_vars, fetch_vars, report_vars,
                   station_response>>

NextStation == RequestStations \/ SelectStation

SpecStation == InitStation /\ [][NextStation]_vars

StationSelected == pc \in {"station_found", "raised_ValueError"}

ListedStations ==
    IF station_response = None THEN {}
    ELSE Range(station_response.results)

UswStations == {s \in ListedStations : s.id.prefix = "GHCND:USW"}

\* the listing of the example: S1 is a USW station 5 km away, S2 a station of
\* another class 1 km away
ExampleListing(ss) ==
    /\ Len(ss) = 2
    /\ \E i, j \in 1..2 :
          /\ ss[i].id.prefix = "GHCND:USW" /\ ss[i].km = 5
          /\ ss[j].id.prefix # "GHCND:USW" /\ ss[j].km = 1

\* C14: find_nearest_station only ever returns a station of the USW class; it
\* is one of the USW stations of the listing with the least distance to the
\* target, and a closer station of another class is never returned: of S1 (USW,
\* 5 km) and S2 (not USW, 1 km) the result is S1.
C14_NearestUsw ==
    (StationSelected /\ station_id # None) =>
        /\ station_id.id.prefix = "GHCND:USW"
        /\ \E s \in UswStations :
              /\ s.id = station_id.id
              /\ \A t \in UswStations : s.km <= t.km
        /\ ExampleListing(station_response.results) =>
              \E s \in UswStations : s.id = station_id.id /\ s.km = 5

C14_Witness ==
    /\ pc = "station_found"
    /\ ExampleListing(station_response.results)
    /\ station_response.results[1].id.prefix # "GHCND:USW"
    /\ station_id.id = station_response.results[2].id

----------------------------------------------------------------------------
(* safe_noaa_request and the pagination loop of get_noaa_data_for_range *)

\* the defaults of safe_noaa_request, which every call of it uses
max_retries == 5
initial_backoff == 5

\* limit of get_noaa_data_for_range
limit == 1000

\* the status codes the source answers with: success, overload, another error
StatusCodes == {200, 503, 404}

\* the totals of records the source has for a range
PageCounts == {0, 1, 999, 1000, 1001, 2000, 2001}

\* every status but 200 is tried again
Retryable_any(status) == status # 200

\* elif response.status_code == 503
Retryable(status) == status = 503

\* the loop ends one page early
LastPage_early(off, lim, count) == off + lim >= count

\* if offset + limit > count: break
LastPage(off, lim, count) == off + lim > count

\* the body of a 200 response to the request of the page at offset off: the
\* records off .. off + limit - 1 of the result set, as the pair of the first
\* and the last position (none when off is beyond the total), and the total
\* when the source reports it
PageBody(off) ==
    [kind |-> "response", status_code |-> 200,
     results |-> <<off, IF off + limit - 1 < server_count THEN off + limit - 1
                        ELSE server_count>>,
     has_count |-> reports_count,
     count |-> IF reports_count THEN server_count ELSE 0]

InitFetch ==
    /\ pc = "get_noaa_data_for_range"
    /\ weatherbit_data = EmptyWeatherbit
    /\ open_meteo_data = EmptyOpenMeteo
    /\ df_openmeteo = EmptyFrame
    /\ df_weatherbit = EmptyFrame
    /\ forecast_df_merged = EmptyFrame
    /\ noaa_data = <<>>
    /\ historical_df = EmptyFrame
    /\ summary_historical_df = EmptyFrame
    /\ daily_historical_df = EmptyFrame
    /\ RangesIdle
    /\ StationIdle
    /\ server_count \in PageCounts
    /\ reports_count \in BOOLEAN
    /\ offset = 1
    /\ all_results = <<>>
    /\ requested = <<>>
    /\ attempt = 0
    /\ backoff = 0
    /\ slept = <<>>
    /\ statuses = <<>>
    /\ response = None
    /\ ReportIdle

\* the top of "while True": safe_noaa_request is called for the page at offset
RequestPage ==
    /\ pc = "get_noaa_data_for_range"
    /\ requested' = Append(requested, offset)
    /\ attempt' = 0
    /\ backoff' = initial_backoff
    /\ slept' = <<>>
    /\ statuses' = <<>>
    /\ response' = None
    /\ pc' = "safe_noaa_request"
    /\ UNCHANGED <<server_count, reports_count, offset, all_results>>
    /\ UNCHANGED <<forecast_vars, historical_vars, ranges_vars, station_vars, report_vars>>

\* one iteration of "for attempt in range(max_retries)"; the function returns
\* from inside the loop on 200, after it on another status or when the
\* iterations are used up
Attempt ==
    /\ pc = "safe_noaa_request"
    /\ attempt < max_retries
    /\ \E status \in StatusCodes :
          /\ statuses' = Append(statuses, status)
          /\ attempt' = attempt + 1
          /\ IF status = 200
             THEN /\ response' = PageBody(offset)
                  /\ pc' = "page_response"
                  /\ UNCHANGED <<slept, backoff>>
             ELSE IF Retryable(status)
             THEN /\ slept' = Append(slept, backoff)
                  /\ backoff' = backoff * 2
                  /\ response' = None
                  /\ pc' = IF attempt + 1 < max_retries THEN "safe_noaa_request"
                           ELSE "page_response"
             ELSE /\ response' = None
                  /\ pc' = "page_response"
                  /\ UNCHANGED <<slept, backoff>>
    /\ UNCHANGED <<server_count, reports_count, offset, all_results, requested>>
    /\ UNCHANGED <<forecast_vars, historical_vars, ranges_vars, station_vars, report_vars>>

\* the rest of the body of "while True", after safe_noaa_request returned
HandlePage ==
    /\ pc = "page_response"
    /\ IF response = None
       THEN /\ pc' = "returned_all_results"
            /\ UNCHANGED <<offset, all_results>>
       ELSE /\ all_results' = Append(all_results, response.results)
            /\ IF LastPage(offset, limit, response.count)
               THEN pc' = "returned_all_results" /\ UNCHANGED offset
               ELSE pc' = "get_noaa_data_for_range" /\ offset' = offset + limit
    /\ UNCHANGED <<server_count, reports_count, requested, attempt, backoff, slept,
                   statuses, response>>
    /\ UNCHANGED <<forecast_vars, historical_vars, ranges_vars, station_vars, report_vars>>

NextFetch == RequestPage \/ Attempt \/ HandlePage

SpecFetch == InitFetch /\ [][NextFetch]_vars

----------------------------------------------------------------------------
(* Claims on the requests to the historical source *)

RECURSIVE Pow2(_)
Pow2(n) == IF n = 0 THEN 1 ELSE 2 * Pow2(n - 1)

InRequest == pc \in {"safe_noaa_request", "page_response"}

RequestReturned == pc = "page_response"

\* C16: safe_noaa_request makes at most max_retries (5) attempts; it returns
\* the response on the first 200, tries again only after a 503 and after a
\* wait that doubles each time (backoff, 2*backoff, 4*backoff, ...), returns
\* None at once on any other status, and returns None when every attempt got
\* 503.
C16_BoundedRetries ==
    InRequest =>
        /\ attempt <= max_retries
        /\ Len(statuses) = attempt
        /\ \A i \in 1..(attempt - 1) : statuses[i] = 503
        /\ pc = "safe_noaa_request" =>
              /\ attempt < max_retries
              /\ \A i \in 1..attempt : statuses[i] = 503
        /\ Len(slept) = Cardinality({i \in 1..attempt : statuses[i] = 503})
        /\ \A i \in 1..Len(slept) : slept[i] = initial_backoff * Pow2(i - 1)
        /\ RequestReturned =>
              /\ attempt >= 1
              /\ (response # None) <=> (statuses[attempt] = 200)
              /\ (statuses[attempt] = 503) => (attempt = max_retries /\ response = None)

C16_Witness ==
    /\ RequestReturned
    /\ statuses = <<503, 503, 503, 503, 503>>
    /\ slept = <<5, 10, 20, 40, 80>>
    /\ response = None

Returned == pc = "returned_all_results"

\* max(1, ceil(count/1000))
PagesOf(count) == IF count = 0 THEN 1 ELSE (count + limit - 1) \div limit

\* the positions of the result set that the returned list holds, page by page
Positions(page) == page[1]..page[2]

\* C18: the pagination loop ends, and when every page request succeeds and the
\* source reports its total count, the requests are those of the offsets 1,
\* 1001, 2001, ... while pages remain, max(1, ceil(count/1000)) of them, and
\* the returned list holds every one of the count records exactly once.
C18_Pagination ==
    /\ Len(requested) <= PagesOf(server_count)
    /\ \A i \in 1..Len(requested) : requested[i] = 1 + (i - 1) * limit
    /\ (Returned /\ response # None /\ reports_count) =>
          /\ Len(requested) = PagesOf(server_count)
          /\ Len(all_results) = Len(requested)
          /\ UNION {Positions(all_results[i]) : i \in 1..Len(all_results)} = 1..server_count
          /\ \A i, j \in 1..Len(all_results) :
                i # j => Positions(all_results[i]) \cap Positions(all_results[j]) = {}

C18_Witness ==
    /\ Returned
    /\ response # None
    /\ server_count = 2001
    /\ requested = <<1, 1001, 2001>>
    /\ all_results = <<<<1, 1000>>, <<1001, 2000>>, <<2001, 2001>>>>

----------------------------------------------------------------------------
(* generate_weather_report, from the city to the answer of the LLM *)

\* the value of date.today() in the runs of the whole report
ReportDays == {20250704}

\* the coordinates geolocator.geocode found
Coordinates == [kind |-> "coordinates"]

\* a 200 body of Open-Meteo and of Weatherbit: two days, every field there
SampleOpenMeteo ==
    [has_daily |-> TRUE,
     daily |-> [time |-> <<1, 2>>,
                arrays |-> [key \in Range(OpenMeteoKeys) |->
                    FullArray(CHOOSE j \in 1..4 : OpenMeteoKeys[j] = key, 2)]]]

SampleWeatherbit ==
    [has_data |-> TRUE,
     data |-> [d \in 1..2 |->
         [datetime |-> d,
          fields |-> [key \in Range(WeatherbitKeys) |->
              Num(50 + 10 * ((CHOOSE j \in 1..4 : WeatherbitKeys[j] = key) - 1) + d)]]]]

\* the status codes the historical source answers the attempts of one request
\* with: success at once, success after two 503, 503 every time, another error
AnswerStreams ==
    {[i \in 1..max_retries |-> 200],
     [i \in 1..max_retries |-> IF i < 3 THEN 503 ELSE 200],
     [i \in 1..max_retries |-> 503],
     [i \in 1..max_retries |-> 404]}

\* safe_noaa_request, from attempt i on, when the source answers the attempts
\* with the status codes of answers and a 200 comes with body
RECURSIVE safe_noaa_request_from(_, _, _)
safe_noaa_request_from(answers, i, body) ==
    IF i > max_retries THEN None
    ELSE IF answers[i] = 200 THEN body
    ELSE IF Retryable(answers[i]) THEN safe_noaa_request_from(answers, i + 1, body)
    ELSE None

safe_noaa_request(answers, body) == safe_noaa_request_from(answers, 1, body)

Exhausted(answers) == \A i \in 1..max_retries : answers[i] = 503

\* the listings of the stations request in the runs of the whole report
ReportListings ==
    {Listing(ss) : ss \in {<<>>,
                           <<[prefix |-> "GHCND:USC", km |-> 1]>>,
                           <<[prefix |-> "GHCND:USC", km |-> 1], [prefix |-> "GHCND:USW", km |-> 5]>>}}

\* the station is used whatever it is
StationMissing_never(id) == FALSE

\* if not station_id
StationMissing(id) == id = None

Raise(type, where) == [kind |-> "exception", type |-> type, in |-> where]

\* the articles and posts the news and social sources answer with
Articles == {<<>>, <<[title |-> "Heat wave", source |-> "Daily"]>>}
Posts == {<<>>, <<[title |-> "Storm", subreddit |-> "weather", selftext |-> ""]>>}

\* format_news_data: the fallback sentence for no article, else a heading and
\* one entry per article
format_news_data(articles) ==
    IF articles = <<>>
    THEN [kind |-> "text", fallback |-> TRUE, entries |-> 0]
    ELSE [kind |-> "text", fallback |-> FALSE, entries |-> Len(articles)]

\* format_reddit_posts_for_llm: one entry per post, the empty string for none
format_reddit_posts_for_llm(posts) ==
    [kind |-> "text", fallback |-> FALSE, entries |-> Len(posts)]

\* df.to_json(orient='records'): one object per row with the columns as keys;
\* the index is not written
to_json(df) ==
    [i \in 1..Len(df.rows) |-> [c \in Range(df.columns) |-> df.rows[i][c]]]

\* the f-string of create_chatgpt_prompt: the three datasets, the city's
\* coordinates and the station; news_formatted and reddit_post_formatted are
\* parameters that the text does not use
create_chatgpt_prompt(lat_lon, station, news_formatted, reddit_post_formatted, df1_str, df2_str, df3_str) ==
    [kind |-> "prompt",
     datasets |-> <<df1_str, df2_str, df3_str>>,
     lat_lon |-> lat_lon,
     station_id |-> station,
     texts |-> <<>>]

Init ==
    /\ pc = "get_coordinates"
    /\ weatherbit_data = EmptyWeatherbit
    /\ open_meteo_data = EmptyOpenMeteo
    /\ df_openmeteo = EmptyFrame
    /\ df_weatherbit = EmptyFrame
    /\ forecast_df_merged = EmptyFrame
    /\ noaa_data = <<>>
    /\ historical_df = EmptyFrame
    /\ summary_historical_df = EmptyFrame
    /\ daily_historical_df = EmptyFrame
    /\ today \in ReportDays
    /\ days_back = WindowDays
    /\ date_ranges = <<>>
    /\ ranges_done = 0
    /\ archive = "start_date_only"
    /\ StationIdle
    /\ FetchIdle
    /\ ReportIdle

\* lat, lon = get_coordinates(city): (None, None) when the city is not found
GetCoordinates ==
    /\ pc = "get_coordinates"
    /\ location' \in {None, Coordinates}
    /\ pc' = "get_weatherbit_forecast"
    /\ UNCHANGED <<provider_status, overloaded, news_data, reddit_data, prompt,
                   llm_response, exception>>
    /\ UNCHANGED <<forecast_vars, historical_vars, ranges_vars, station_vars, fetch_vars>>
    /\ UNCHANGED side_vars

\* weatherbit_data = get_weatherbit_forecast(lat, lon, key)
ReportWeatherbitForecast ==
    /\ pc = "get_weatherbit_forecast"
    /\ \E status \in {200, 500} :
          /\ weatherbit_data' = IF status = 200 THEN SampleWeatherbit ELSE EmptyWeatherbit
          /\ provider_status' = [provider_status EXCEPT !.weatherbit = status]
    /\ pc' = "get_open_meteo_forecast"
    /\ UNCHANGED <<open_meteo_data, df_openmeteo, df_weatherbit, forecast_df_merged>>
    /\ UNCHANGED <<location, overloaded, news_data, reddit_data, prompt, llm_response,
                   exception>>
    /\ UNCHANGED <<historical_vars, ranges_vars, station_vars, fetch_vars>>
    /\ UNCHANGED side_vars

\* open_meteo_data = get_open_meteo_forecast(lat, lon)
ReportOpenMeteoForecast ==
    /\ pc = "get_open_meteo_forecast"
    /\ \E status \in {200, 500} :
          /\ open_meteo_data' = IF status = 200 THEN SampleOpenMeteo ELSE EmptyOpenMeteo
          /\ provider_status' = [provider_status EXCEPT !.open_meteo = status]
    /\ pc' = "get_noaa_10yr_historical"
    /\ UNCHANGED <<weatherbit_data, df_openmeteo, df_weatherbit, forecast_df_merged>>
    /\ UNCHANGED <<location, overloaded, news_data, reddit_data, prompt, llm_response,
                   exception>>
    /\ UNCHANGED <<historical_vars, ranges_vars, station_vars, fetch_vars>>
    /\ UNCHANGED side_vars

\* get_noaa_10yr_historical up to its loop: the ranges, find_nearest_station
\* (whose extent lat - 1, ... is a TypeError when lat is None) and the test of
\* the station
ReportFindStation ==
    /\ pc = "get_noaa_10yr_historical"
    /\ date_ranges' = generate_past_10yr_ranges(today, days_back)
    /\ IF location = None
       THEN /\ exception' = Raise("TypeError", "find_nearest_station")
            /\ pc' = "raised"
            /\ UNCHANGED <<station_vars, overloaded>>
       ELSE \E answers \in AnswerStreams, listing \in ReportListings :
               LET resp == safe_noaa_request(answers,
                               [kind |-> "response", status_code |-> 200,
                                results |-> listing])
                   id == find_nearest_station(resp)
               IN  /\ station_response' = resp
                   /\ station_id' = id
                   /\ overloaded' = IF Exhausted(answers) THEN overloaded \cup {"stations"}
                                    ELSE overloaded
                   /\ IF StationMissing(id)
                      THEN /\ exception' = Raise("ValueError", "get_noaa_10yr_historical")
                           /\ pc' = "raised"
                      ELSE /\ pc' = "get_noaa_data_for_range"
                           /\ UNCHANGED exception
    /\ UNCHANGED <<today, days_back, ranges_done, archive>>
    /\ UNCHANGED <<location, provider_status, news_data, reddit_data, prompt, llm_response>>
    /\ UNCHANGED <<forecast_vars, historical_vars, fetch_vars>>
    /\ UNCHANGED side_vars

\* one iteration of the loop of get_noaa_10yr_historical: the range has one
\* page, and when its request gives None the range adds nothing
ReportRangeData ==
    /\ pc = "get_noaa_data_for_range"
    /\ ranges_done < Len(date_ranges)
    /\ \E answers \in AnswerStreams :
          LET resp == safe_noaa_request(answers,
                          [kind |-> "response", status_code |-> 200,
                           results |-> RangeRecords(date_ranges[ranges_done + 1], archive)])
          IN  /\ noaa_data' = IF resp = None THEN noaa_data ELSE noaa_data \o resp.results
              /\ overloaded' = IF Exhausted(answers) THEN overloaded \cup {"data"}
                               ELSE overloaded
    /\ requested' = Append(requested, 1)
    /\ ranges_done' = ranges_done + 1
    /\ pc' = IF ranges_done + 1 = Len(date_ranges) THEN "get_weather_news"
             ELSE "get_noaa_data_for_range"
    /\ UNCHANGED <<today, days_back, date_ranges, archive>>
    /\ UNCHANGED <<server_count, reports_count, offset, all_results, attempt, backoff,
                   slept, statuses, response>>
    /\ UNCHANGED <<location, provider_status, news_data, reddit_data, prompt, llm_response,
                   exception>>
    /\ UNCHANGED <<forecast_vars, historical_df, summary_historical_df,
                   daily_historical_df, station_vars>>
    /\ UNCHANGED side_vars

\* news_data = get_weather_news(...): the articles, [] on any failure
GetWeatherNews ==
    /\ pc = "get_weather_news"
    /\ news_data' \in Articles
    /\ pc' = "fetch_reddit_weather_posts"
    /\ UNCHANGED <<location, provider_status, overloaded, reddit_data, prompt,
                   llm_response, exception>>
    /\ UNCHANGED <<forecast_vars, historical_vars, ranges_vars, station_vars, fetch_vars>>
    /\ UNCHANGED side_vars

\* reddit_data = fetch_reddit_weather_posts(...)
FetchRedditWeatherPosts ==
    /\ pc = "fetch_reddit_weather_posts"
    /\ reddit_data' \in Posts
    /\ pc' = "merge_forecasts"
    /\ UNCHANGED <<location, provider_status, overloaded, news_data, prompt,
                   llm_response, exception>>
    /\ UNCHANGED <<forecast_vars, historical_vars, ranges_vars, station_vars, fetch_vars>>
    /\ UNCHANGED side_vars

\* forecast_df_merged = merge_forecasts(...); nothing in generate_weather_report
\* catches what it raises
ReportMergeForecasts ==
    /\ pc = "merge_forecasts"
    /\ LET dfo == normalize_forecast(open_meteo_data, "open_meteo")
           dfw == normalize_forecast(weatherbit_data, "weatherbit")
           out == merge_forecasts(open_meteo_data, weatherbit_data)
       IN  /\ df_openmeteo' = dfo
           /\ df_weatherbit' = IF dfo.exc = "none" THEN dfw ELSE df_weatherbit
           /\ forecast_df_merged' = out
           /\ IF out.exc = "none"
              THEN pc' = "normalize_noaa_data" /\ UNCHANGED exception
              ELSE pc' = "raised" /\ exception' = Raise(out.exc, "merge_forecasts")
    /\ UNCHANGED <<weatherbit_data, open_meteo_data>>
    /\ UNCHANGED <<location, provider_status, overloaded, news_data, reddit_data, prompt,
                   llm_response>>
    /\ UNCHANGED <<historical_vars, ranges_vars, station_vars, fetch_vars>>
    /\ UNCHANGED side_vars

\* the formatting of the news and the posts, the three to_json and
\* create_chatgpt_prompt
CreatePrompt ==
    /\ pc = "summarized"
    /\ prompt' = create_chatgpt_prompt(location, station_id,
                     format_news_data(news_data),
                     format_reddit_posts_for_llm(reddit_data),
                     to_json(forecast_df_merged),
                     to_json(summary_historical_df),
                     to_json(daily_historical_df))
    /\ pc' = "query_llm_with_fallback"
    /\ UNCHANGED <<location, provider_status, overloaded, news_data, reddit_data,
                   llm_response, exception>>
    /\ UNCHANGED <<forecast_vars, historical_vars, ranges_vars, station_vars, fetch_vars>>
    /\ UNCHANGED side_vars

\* response = query_llm_with_fallback(...); return response
QueryLlm ==
    /\ pc = "query_llm_with_fallback"
    /\ llm_response' \in {[kind |-> "report"], [kind |-> "error_text"]}
    /\ pc' = "returned"
    /\ UNCHANGED <<location, provider_status, overloaded, news_data, reddit_data,
                   prompt, exception>>
    /\ UNCHANGED <<forecast_vars, historical_vars, ranges_vars, station_vars, fetch_vars>>
    /\ UNCHANGED side_vars

Next ==
    \/ GetCoordinates
    \/ ReportWeatherbitForecast
    \/ ReportOpenMeteoForecast
    \/ ReportFindStation
    \/ ReportRangeData
    \/ GetWeatherNews
    \/ FetchRedditWeatherPosts
    \/ ReportMergeForecasts
    \/ NormalizeNoaaData
    \/ SummarizeNoaaData
    \/ SummarizeNoaaDailyClimatology
    \/ CreatePrompt
    \/ QueryLlm

Spec == Init /\ [][Next]_vars

----------------------------------------------------------------------------
(* Claims on the whole report *)

HasRaised == pc \in {"raised", "raised_historical"}

StationTested == pc \notin {"get_coordinates", "get_weatherbit_forecast",
                            "get_open_meteo_forecast", "get_noaa_10yr_historical"}

\* the stations request was answered and its listing has no USW station
NoUswInBox == station_response # None /\ UswStations = {}

\* C15: when the bounding box has no USW station, get_noaa_10yr_historical
\* raises before any historical-data request is made and the error leaves
\* generate_weather_report: no prompt is built, the LLM is not queried, and no
\* station of another class is used instead.
C15_NoStationIsFatal ==
    (StationTested /\ location # None /\ NoUswInBox) =>
        /\ pc = "raised"
        /\ exception = Raise("ValueError", "get_noaa_10yr_historical")
        /\ requested = <<>>
        /\ noaa_data = <<>>
        /\ station_id = None
        /\ prompt = None
        /\ llm_response = None

C15_Witness ==
    /\ pc = "raised"
    /\ exception = Raise("ValueError", "get_noaa_10yr_historical")
    /\ station_response # None
    /\ Len(station_response.results) = 1
    /\ UswStations = {}
    /\ requested = <<>>

\* C17: when the historical source answers 503 until the ceiling of the
\* retries, be it to the stations request or to a data request, the source
\* contributes empty data and the report goes on to the prompt and the LLM; it
\* is not aborted.
C17_OverloadTolerated ==
    (overloaded # {}) => ~HasRaised

\* what the code does do: a data request that got 503 only adds nothing, and
\* with both forecasts there the report is not aborted
ForecastFailed ==
    provider_status.weatherbit \notin {0, 200} \/ provider_status.open_meteo \notin {0, 200}

C17_DataRequestTolerated ==
    (overloaded = {"data"} /\ ~ForecastFailed) => ~HasRaised

\* C19: when a forecast provider (one or both) answers with a status other
\* than 200, its fetcher returns empty data and the report still runs to its
\* end: merge, summaries, prompt, LLM call.
C19_ForecastFailureTolerated ==
    /\ provider_status.weatherbit \notin {0, 200} => weatherbit_data = EmptyWeatherbit
    /\ provider_status.open_meteo \notin {0, 200} => open_meteo_data = EmptyOpenMeteo
    /\ (ForecastFailed /\ HasRaised) => exception.in # "merge_forecasts"

\* C20: for a city of which nothing can be fetched (no coordinates, empty
\* forecasts, news and posts) generate_weather_report does not crash, the
\* missing USW station apart: no exception other than that one leaves it.
C20_NothingFetchedNoCrash ==
    (location = None /\ HasRaised) =>
        exception = Raise("ValueError", "get_noaa_10yr_historical")

----------------------------------------------------------------------------
(* Claims on what the summarizers do to the table they are given *)

SummarizerReturned == pc \in {"summarize_noaa_daily_climatology", "summarized"}

\* C21: the core functions change nothing they are given; in particular the
\* historical table passed to the two summarizers is the same (columns, column
\* types, values) after each call as before it, that is, as normalize_noaa_data
\* returned it.
C21_InputsUnchanged ==
    SummarizerReturned => historical_df = normalize_noaa_data(noaa_data)

\* what the code does do to the table: the values of the four variables stay,
\* the dates become timestamps and the climatology adds the month_day column
C21_VariablesUnchanged ==
    SummarizerReturned =>
        LET before == normalize_noaa_data(noaa_data)
        IN  /\ Len(historical_df.rows) = Len(before.rows)
            /\ \A i \in 1..Len(before.rows), k \in 1..4 :
                  historical_df.rows[i][NoaaCols[k]] = before.rows[i][NoaaCols[k]]
            /\ \A i \in 1..Len(before.rows) :
                  historical_df.rows[i]["date"] = Timestamp(before.rows[i]["date"].val)
            /\ pc = "summarized" => HasColumn(historical_df, "month_day")

----------------------------------------------------------------------------
(* Claims on the prompt *)

PromptBuilt == prompt # None

\* C22: the prompt sent to the LLM holds every gathered artifact: the three
\* serialized tables and also the text blocks that format_news_data and
\* format_reddit_posts_for_llm made, so that the fallback sentence for no news
\* reaches the LLM when no article was found.
C22_PromptHasEveryArtifact ==
    PromptBuilt =>
        /\ prompt.datasets = <<to_json(forecast_df_merged), to_json(summary_historical_df),
                               to_json(daily_historical_df)>>
        /\ \E i \in 1..Len(prompt.texts) : prompt.texts[i] = format_news_data(news_data)
        /\ \E i \in 1..Len(prompt.texts) :
              prompt.texts[i] = format_reddit_posts_for_llm(reddit_data)

\* what the prompt does hold: the three tables, the coordinates, the station
C22_PromptHasTables ==
    PromptBuilt =>
        /\ prompt.datasets = <<to_json(forecast_df_merged), to_json(summary_historical_df),
                               to_json(daily_historical_df)>>
        /\ prompt.lat_lon = location
        /\ prompt.station_id = station_id

----------------------------------------------------------------------------
(* The two summarizers in the other order, on a second table object *)

\* a second historical_df = normalize_noaa_data(noaa_data)
ReversedNormalize ==
    /\ pc = "summarized"
    /\ reversed_df' = normalize_noaa_data(noaa_data)
    /\ pc' = IF normalize_noaa_data(noaa_data).exc = "none" THEN "reversed_climatology"
             ELSE "raised_historical"
    /\ UNCHANGED <<reversed_summary, reversed_daily>>
    /\ UNCHANGED <<forecast_vars, historical_vars, ranges_vars, station_vars, fetch_vars>>
    /\ UNCHANGED <<location, provider_status, overloaded, news_data, reddit_data,
                   prompt, llm_response, exception, llm_vars, chat_vars>>

\* summarize_noaa_daily_climatology(reversed_df) first
ReversedClimatology ==
    /\ pc = "reversed_climatology"
    /\ LET out == summarize_noaa_daily_climatology(reversed_df)
       IN  /\ reversed_daily' = out
           /\ reversed_df' = IF out.exc = "none" THEN WithMonthDay(reversed_df)
                             ELSE reversed_df
           /\ pc' = IF out.exc = "none" THEN "reversed_summary" ELSE "raised_historical"
    /\ UNCHANGED reversed_summary
    /\ UNCHANGED <<forecast_vars, historical_vars, ranges_vars, station_vars, fetch_vars>>
    /\ UNCHANGED <<location, provider_status, overloaded, news_data, reddit_data,
                   prompt, llm_response, exception, llm_vars, chat_vars>>

\* summarize_noaa_data(reversed_df) second
ReversedSummary ==
    /\ pc = "reversed_summary"
    /\ LET out == summarize_noaa_data(reversed_df)
       IN  /\ reversed_summary' = out
           /\ reversed_df' = DatesToDatetime(reversed_df)
           /\ pc' = IF out.exc = "none" THEN "both_orders_done" ELSE "raised_historical"
    /\ UNCHANGED reversed_daily
    /\ UNCHANGED <<forecast_vars, historical_vars, ranges_vars, station_vars, fetch_vars>>
    /\ UNCHANGED <<location, provider_status, overloaded, news_data, reddit_data,
                   prompt, llm_response, exception, llm_vars, chat_vars>>

NextOrder ==
    \/ GetNoaaHistorical
    \/ NormalizeNoaaData
    \/ SummarizeNoaaData
    \/ SummarizeNoaaDailyClimatology
    \/ ReversedNormalize
    \/ ReversedClimatology
    \/ ReversedSummary

SpecOrder == InitHistorical /\ [][NextOrder]_vars

BothOrdersDone == pc = "both_orders_done"

\* C25: summarize_noaa_data then summarize_noaa_daily_climatology on one table
\* object gives the same two result tables as the two in the opposite order,
\* and the same as each of them on its own fresh copy of the table.
C25_OrderIndependent ==
    BothOrdersDone =>
        /\ reversed_summary = summary_historical_df
        /\ reversed_daily = daily_historical_df
        /\ summary_historical_df = summarize_noaa_data(normalize_noaa_data(noaa_data))
        /\ daily_historical_df =
              summarize_noaa_daily_climatology(normalize_noaa_data(noaa_data))

C25_Witness ==
    /\ BothOrdersDone
    /\ Len(daily_historical_df.rows) = 2
    /\ historical_df # normalize_noaa_data(noaa_data)
    /\ \E i \in 1..Len(historical_df.rows) :
          historical_df.rows[i]["temp_max-degC-noaa"] = Unparseable
    /\ reversed_daily = daily_historical_df

----------------------------------------------------------------------------
(* query_llm_with_fallback and the return of generate_weather_report *)

\* a Python str, as the sequence of its pieces
Str(pieces) == [kind |-> "str", val |-> pieces]

\* bool(v) of None or a str: `if openai_key:`, `if not location:`
Truthy(v) == v.kind # "none" /\ ~(v.kind = "str" /\ v.val = <<>>)

Whitespace == {" ", "\n"}

RECURSIVE LStrip(_)
LStrip(pieces) ==
    IF pieces # <<>> /\ Head(pieces) \in Whitespace THEN LStrip(Tail(pieces)) ELSE pieces

RECURSIVE RStrip(_)
RStrip(pieces) ==
    IF pieces # <<>> /\ pieces[Len(pieces)] \in Whitespace
    THEN RStrip(SubSeq(pieces, 1, Len(pieces) - 1))
    ELSE pieces

\* str.strip()
Strip(pieces) == RStrip(LStrip(pieces))

\* os.getenv("OPENAI_KEY"): unset, set to the empty string, set to a key
OpenaiKeys == {None, Str(<<>>), Str(<<"sk-key">>)}

\* how client.chat.completions.create ends: a message with a content, a message
\* whose content is None, or an exception of the SDK
CompletionOutcomes ==
    {[exc |-> "none", content |-> Str(<<"\n", "7-day forecast", " ">>)],
     [exc |-> "none", content |-> None],
     [exc |-> "RateLimitError", content |-> None],
     [exc |-> "APIConnectionError", content |-> None]}

\* query_openai with its except clause left out
query_openai_raising(outcome) ==
    IF outcome.exc # "none" THEN [exc |-> outcome.exc, value |-> None]
    ELSE IF outcome.content = None THEN [exc |-> "AttributeError", value |-> None]
    ELSE [exc |-> "none", value |-> Str(Strip(outcome.content.val))]

\* query_openai: the stripped content, or "Error: {e}" for any exception of the
\* request or of reading the content
query_openai(outcome) ==
    IF outcome.exc # "none" THEN [exc |-> "none", value |-> Str(<<"Error: ", outcome.exc>>)]
    ELSE IF outcome.content = None
         THEN [exc |-> "none", value |-> Str(<<"Error: ", "AttributeError">>)]
    ELSE [exc |-> "none", value |-> Str(Strip(outcome.content.val))]

LlmStations == {"GHCND:USW00013904", "GHCND:USW00094728", "GHCND:USW00023234"}

LlmPrompts ==
    {create_chatgpt_prompt(Coordinates, st, format_news_data(a), format_reddit_posts_for_llm(<<>>), <<>>, <<>>, <<>>) :
        st \in LlmStations, a \in Articles}

InitLlm ==
    /\ pc = "query_llm_with_fallback"
    /\ weatherbit_data = EmptyWeatherbit
    /\ open_meteo_data = EmptyOpenMeteo
    /\ df_openmeteo = EmptyFrame
    /\ df_weatherbit = EmptyFrame
    /\ forecast_df_merged = EmptyFrame
    /\ noaa_data = <<>>
    /\ historical_df = EmptyFrame
    /\ summary_historical_df = EmptyFrame
    /\ daily_historical_df = EmptyFrame
    /\ RangesIdle
    /\ StationIdle
    /\ FetchIdle
    /\ OrderIdle
    /\ ChatIdle
    /\ location = None
    /\ provider_status = [weatherbit |-> 0, open_meteo |-> 0]
    /\ overloaded = {}
    /\ news_data = <<>>
    /\ reddit_data = <<>>
    /\ prompt \in LlmPrompts
    /\ llm_response = None
    /\ exception = None
    /\ openai_key \in OpenaiKeys
    /\ backends = <<>>
    /\ completion = "none"
    /\ model_path \in {"absent", "cached"}
    /\ report = None

\* `if openai_key:`
QueryLlmWithFallback ==
    /\ pc = "query_llm_with_fallback"
    /\ pc' = IF Truthy(openai_key) THEN "query_openai" ELSE "model_path"
    /\ UNCHANGED <<forecast_vars, historical_vars, other_vars>>

\* response = query_openai(client, prompt); return response
QueryOpenai ==
    /\ pc = "query_openai"
    /\ \E outcome \in CompletionOutcomes :
          /\ completion' = (IF outcome.exc # "none" THEN outcome.exc
                            ELSE IF outcome.content = None THEN "no_content" ELSE "completed")
          /\ backends' = Append(backends, "openai")
          /\ IF query_openai(outcome).exc = "none"
             THEN /\ llm_response' = query_openai(outcome).value
                  /\ pc' = "return_response"
                  /\ UNCHANGED exception
             ELSE /\ exception' = Raise(query_openai(outcome).exc, "query_openai")
                  /\ pc' = "raised"
                  /\ UNCHANGED llm_response
    /\ UNCHANGED <<openai_key, model_path, report>>
    /\ UNCHANGED <<location, provider_status, overloaded, news_data, reddit_data, prompt>>
    /\ UNCHANGED <<forecast_vars, historical_vars, ranges_vars, station_vars, fetch_vars,
                   order_vars, chat_vars>>

\* the model file under models/: used when it exists, else hf_hub_download,
\* which raises when the download fails
ResolveModelPath ==
    /\ pc = "model_path"
    /\ \/ /\ model_path = "cached"
          /\ pc' = "load_model"
          /\ UNCHANGED <<model_path, exception>>
       \/ /\ model_path = "absent"
          /\ model_path' = "downloaded"
          /\ pc' = "load_model"
          /\ UNCHANGED exception
       \/ /\ model_path = "absent"
          /\ exception' = Raise("HTTPError", "hf_hub_download")
          /\ pc' = "raised"
          /\ UNCHANGED model_path
    /\ UNCHANGED <<openai_key, backends, completion, report>>
    /\ UNCHANGED <<location, provider_status, overloaded, news_data, reddit_data,
                   prompt, llm_response>>
    /\ UNCHANGED <<forecast_vars, historical_vars, ranges_vars, station_vars, fetch_vars,
                   order_vars, chat_vars>>

\* llm = Llama(model_path=...), which raises when the file does not load
LoadModel ==
    /\ pc = "load_model"
    /\ \/ /\ pc' = "query_local"
          /\ UNCHANGED exception
       \/ /\ exception' = Raise("ValueError", "Llama")
          /\ pc' = "raised"
    /\ UNCHANGED llm_vars
    /\ UNCHANGED <<location, provider_status, overloaded, news_data, reddit_data,
                   prompt, llm_response>>
    /\ UNCHANGED <<forecast_vars, historical_vars, ranges_vars, station_vars, fetch_vars,
                   order_vars, chat_vars>>

\* output = llm(prompt, ...); return output["choices"][0]["text"]
QueryLocal ==
    /\ pc = "query_local"
    /\ backends' = Append(backends, "local")
    /\ \/ /\ llm_response' = Str(<<"\n", "7-day forecast">>)
          /\ pc' = "return_response"
          /\ UNCHANGED exception
       \/ /\ exception' = Raise("RuntimeError", "llm")
          /\ pc' = "raised"
          /\ UNCHANGED llm_response
    /\ UNCHANGED <<openai_key, completion, model_path, report>>
    /\ UNCHANGED <<location, provider_status, overloaded, news_data, reddit_data, prompt>>
    /\ UNCHANGED <<forecast_vars, historical_vars, ranges_vars, station_vars, fetch_vars,
                   order_vars, chat_vars>>

\* return response, of generate_weather_report
ReturnResponse ==
    /\ pc = "return_response"
    /\ report' = llm_response
    /\ pc' = "returned"
    /\ UNCHANGED <<openai_key, backends, completion, model_path>>
    /\ UNCHANGED <<location, provider_status, overloaded, news_data, reddit_data,
                   prompt, llm_response, exception>>
    /\ UNCHANGED <<forecast_vars, historical_vars, ranges_vars, station_vars, fetch_vars,
                   order_vars, chat_vars>>

NextLlm ==
    \/ QueryLlmWithFallback
    \/ QueryOpenai
    \/ ResolveModelPath
    \/ LoadModel
    \/ QueryLocal
    \/ ReturnResponse

SpecLlm == InitLlm /\ [][NextLlm]_vars

KeyProvided == openai_key # None /\ openai_key # Str(<<>>)

LlmCallOver == pc \in {"return_response", "returned", "raised"}

CompletionFailed == completion \notin {"none", "completed"}

\* C24: query_llm_with_fallback queries the OpenAI backend iff an OpenAI key
\* is provided and otherwise the local model, never both in one call; on the
\* OpenAI path a failed completion request raises nothing: the response is a
\* text beginning with "Error:", and it is what generate_weather_report returns.
C24_BackendByKey ==
    /\ Len(backends) <= 1
    /\ ("openai" \in Range(backends)) => KeyProvided
    /\ ("local" \in Range(backends)) => ~KeyProvided
    /\ (LlmCallOver /\ KeyProvided) => backends = <<"openai">>
    /\ (LlmCallOver /\ ~KeyProvided /\ exception = None) => backends = <<"local">>
    /\ (LlmCallOver /\ ~KeyProvided) => "openai" \notin Range(backends)
    /\ KeyProvided => exception = None
    /\ (LlmCallOver /\ CompletionFailed) =>
          /\ llm_response.kind = "str"
          /\ Head(llm_response.val) = "Error: "
    /\ pc = "returned" => report = llm_response

C24_Witness ==
    /\ pc = "returned"
    /\ KeyProvided
    /\ completion = "RateLimitError"
    /\ backends = <<"openai">>
    /\ report = Str(<<"Error: ", "RateLimitError">>)

C24_LocalWitness ==
    /\ pc = "returned"
    /\ openai_key = Str(<<>>)
    /\ backends = <<"local">>
    /\ model_path = "downloaded"

----------------------------------------------------------------------------
(* The location chat of the CLI: run_location_chat and main *)

\* the phrase the chat looks for, written with the typographic apostrophe
\* U+2019, and the same words with the apostrophe of the keyboard
AcceptancePhrase == "Thank you! I[U+2019]ve received a valid location:"
StraightPhrase == "Thank you! I've received a valid location:"

\* the pieces of a text that end in "location:"
LocationMarks == {AcceptancePhrase, StraightPhrase, "location:"}

\* "Thank you! I’ve received a valid location:" in assistant_reply
HasPhrase(pieces) == \E i \in 1..Len(pieces) : pieces[i] = AcceptancePhrase

\* text.split("location:")[-1]
RECURSIVE AfterLastMark(_)
AfterLastMark(pieces) ==
    IF \E i \in 1..Len(pieces) : pieces[i] \in LocationMarks
    THEN AfterLastMark(Tail(pieces))
    ELSE pieces

\* text.split(".")[0]
RECURSIVE BeforeFirstDot(_)
BeforeFirstDot(pieces) ==
    IF pieces = <<>> \/ Head(pieces) = "." THEN <<>>
    ELSE <<Head(pieces)>> \o BeforeFirstDot(Tail(pieces))

\* assistant_reply.split("location:")[-1].split(".")[0].strip()
ExtractLocation(pieces) == Str(Strip(BeforeFirstDot(AfterLastMark(pieces))))

default_max_turns == 5

TurnChoices == {0, 1, 2, default_max_turns}

\* OPENAI_KEY_BACKUP set and the SDK importable; set but no SDK; unset and the
\* model file there; unset and no model file
ChatBackends == {"openai", "no_sdk", "local", "no_model"}

Message(role, pieces) == [role |-> role, content |-> pieces]

\* what the assistant may open the chat with
Greetings ==
    {<<"Welcome! Which U.S. city?">>,
     <<AcceptancePhrase, " ", "Austin, TX">>}

\* what the assistant may answer to a user input
Replies ==
    {<<"Please give a location as City, ST">>,
     <<StraightPhrase, " ", "Austin, TX">>,
     <<AcceptancePhrase, " ", "Austin, TX">>,
     <<AcceptancePhrase, " ", "St", ".", " ", "Louis, MO">>,
     <<AcceptancePhrase, "\n">>}

\* input("\nYou: ").strip()
UserInputs == {<<"Austin, TX">>, <<" ", "Will it rain?">>}

\* while turn < max_turns, with <= for <
TurnsLeft_inclusive(t, most) == t <= most

\* while turn < max_turns
TurnsLeft(t, most) == t < most

InitChat ==
    /\ pc = "run_location_chat"
    /\ weatherbit_data = EmptyWeatherbit
    /\ open_meteo_data = EmptyOpenMeteo
    /\ df_openmeteo = EmptyFrame
    /\ df_weatherbit = EmptyFrame
    /\ forecast_df_merged = EmptyFrame
    /\ noaa_data = <<>>
    /\ historical_df = EmptyFrame
    /\ summary_historical_df = EmptyFrame
    /\ daily_historical_df = EmptyFrame
    /\ RangesIdle
    /\ StationIdle
    /\ FetchIdle
    /\ OrderIdle
    /\ LlmIdle
    /\ location = None
    /\ provider_status = [weatherbit |-> 0, open_meteo |-> 0]
    /\ overloaded = {}
    /\ news_data = <<>>
    /\ reddit_data = <<>>
    /\ prompt = None
    /\ llm_response = None
    /\ exception = None
    /\ chat_backend \in ChatBackends
    /\ max_turns \in TurnChoices
    /\ turn = 0
    /\ messages = <<>>
    /\ chat_location = None
    /\ forecast_requests = 0

ChatFrame ==
    /\ UNCHANGED <<forecast_vars, historical_vars, ranges_vars, station_vars, fetch_vars>>
    /\ UNCHANGED <<location, provider_status, overloaded, news_data, reddit_data,
                   prompt, llm_response, order_vars, llm_vars>>

\* run_location_chat picks the backend or exits; the chosen chat starts with
\* the system prompt and turn = 0
RunLocationChat ==
    /\ pc = "run_location_chat"
    /\ IF chat_backend \in {"no_sdk", "no_model"}
       THEN /\ pc' = "exited"
            /\ UNCHANGED messages
       ELSE /\ messages' = <<Message("system", <<"SYSTEM_PROMPT">>)>>
            /\ pc' = "while"
    /\ turn' = 0
    /\ UNCHANGED <<chat_backend, max_turns, chat_location, forecast_requests, exception>>
    /\ ChatFrame

\* while turn < max_turns: ... else return None
WhileTurnsLeft ==
    /\ pc = "while"
    /\ pc' = IF TurnsLeft(turn, max_turns)
             THEN (IF turn = 0 THEN "greeting" ELSE "input")
             ELSE "chat_returned"
    /\ chat_location' = None
    /\ UNCHANGED <<chat_backend, max_turns, turn, messages, forecast_requests, exception>>
    /\ ChatFrame

\* if turn == 0: the assistant's opening, appended and not examined
Greeting ==
    /\ pc = "greeting"
    /\ \/ \E g \in Greetings :
             /\ messages' = Append(messages, Message("assistant", g))
             /\ pc' = "input"
             /\ UNCHANGED exception
       \/ /\ exception' = Raise("APIError", "run_location_chat")
          /\ pc' = "chat_raised"
          /\ UNCHANGED messages
    /\ UNCHANGED <<chat_backend, max_turns, turn, chat_location, forecast_requests>>
    /\ ChatFrame

\* user_input = input(...).strip(); messages.append(...)
ReadUserInput ==
    /\ pc = "input"
    /\ \E typed \in UserInputs :
          messages' = Append(messages, Message("user", Strip(typed)))
    /\ pc' = "completion"
    /\ UNCHANGED <<chat_backend, max_turns, turn, chat_location, forecast_requests, exception>>
    /\ ChatFrame

\* the assistant's reply to the input: return the extraction when the reply
\* has the phrase, else turn += 1
ReplyToInput ==
    /\ pc = "completion"
    /\ \/ \E r \in Replies :
             /\ messages' = Append(messages, Message("assistant", r))
             /\ IF HasPhrase(r)
                THEN /\ chat_location' = ExtractLocation(r)
                     /\ pc' = "chat_returned"
                     /\ UNCHANGED turn
                ELSE /\ turn' = turn + 1
                     /\ pc' = "while"
                     /\ UNCHANGED chat_location
             /\ UNCHANGED exception
       \/ /\ exception' = Raise("APIError", "run_location_chat")
          /\ pc' = "chat_raised"
          /\ UNCHANGED <<messages, turn, chat_location>>
    /\ UNCHANGED <<chat_backend, max_turns, forecast_requests>>
    /\ ChatFrame

\* main: if not location: return
MainExits ==
    /\ pc = "chat_returned"
    /\ ~Truthy(chat_location)
    /\ pc' = "main_done"
    /\ UNCHANGED <<chat_vars, exception>>
    /\ ChatFrame

\* main: forecast_data = get_forecast(location)
GetForecast ==
    /\ pc = "chat_returned"
    /\ Truthy(chat_location)
    /\ forecast_requests' = forecast_requests + 1
    /\ pc' = "main_done"
    /\ UNCHANGED <<chat_backend, max_turns, turn, messages, chat_location, exception>>
    /\ ChatFrame

NextChat ==
    \/ RunLocationChat
    \/ WhileTurnsLeft
    \/ Greeting
    \/ ReadUserInput
    \/ ReplyToInput
    \/ MainExits
    \/ GetForecast

\* every step is the program's own next statement; the user answers each
\* input() and every completion request returns or raises
SpecChat == InitChat /\ [][NextChat]_vars /\ WF_vars(NextChat)

ByRole(msg) == msg.role = "user"

InputsRead == Len(SelectSeq(messages, ByRole))

ChatReturned == pc \in {"chat_returned", "main_done"}

ChatOver == pc \in {"main_done", "exited", "chat_raised"}

AssistantReplies == {i \in 1..Len(messages) : messages[i].role = "assistant"}

RepliesToInput == {i \in AssistantReplies : messages[i - 1].role = "user"}

\* what holds however the acceptance is read: the inputs are bounded, None is
\* returned exactly after max_turns unaccepted inputs, no request without a
\* location
ChatBounded ==
    /\ InputsRead <= max_turns
    /\ (ChatReturned /\ chat_location = None) =>
          /\ InputsRead = max_turns
          /\ \A i \in RepliesToInput : ~HasPhrase(messages[i].content)
    /\ (ChatReturned /\ chat_location # None) =>
          /\ Len(messages) \in RepliesToInput
          /\ HasPhrase(messages[Len(messages)].content)
    /\ forecast_requests <= 1
    /\ (chat_location = None \/ pc \in {"exited", "chat_raised"}) => forecast_requests = 0

\* C23: the chat reads at most max_turns user inputs, returns the extracted
\* location as soon as an assistant reply contains the acceptance phrase,
\* returns None once max_turns inputs were read without acceptance, and main
\* sends no forecast request when the result is None.
C23_ReturnsOnAnyAcceptance ==
    /\ ChatBounded
    /\ \A i \in AssistantReplies :
          HasPhrase(messages[i].content) =>
              /\ ChatReturned
              /\ i = Len(messages)
              /\ chat_location = ExtractLocation(messages[i].content)

AcceptanceEndsChat ==
    /\ ChatBounded
    /\ \A i \in RepliesToInput :
          HasPhrase(messages[i].content) =>
              /\ ChatReturned
              /\ i = Len(messages)
              /\ chat_location = ExtractLocation(messages[i].content)

\* C23 (amended): as C23, where the reply that ends the chat is a reply to a
\* user input (the opening of the assistant is not examined), and the chat
\* and main always come to an end.
C23_ChatTerminates == []AcceptanceEndsChat /\ <>ChatOver

C23_Witness ==
    /\ pc = "main_done"
    /\ max_turns = default_max_turns
    /\ InputsRead = default_max_turns
    /\ chat_location = None
    /\ HasPhrase(messages[2].content)
    /\ forecast_requests = 0

C23_AcceptedWitness ==
    /\ pc = "main_done"
    /\ InputsRead = 2
    /\ chat_location = Str(<<"St">>)
    /\ forecast_requests = 1

=============================================================================
